---- MODULE Spec2Model ----
(***************************************************************************)
(* A model of the evaluation core of rune: the tree-walking interpreter of *)
(* src/src/interpreter.rs over the Environment (dynamic table, catch-tag    *)
(* stack, thrown slot) and the arena's cons cells (src/src/core/cons.rs).   *)
(*                                                                         *)
(* The interpreter is a recursive function over the machine state; it is   *)
(* modelled as RECURSIVE operators that thread the machine                 *)
(*     m = [vars, env, heap, log]                                          *)
(* where vars is Interpreter.vars (the lexical stack, a Vec of binding     *)
(* cells), env is the Environment, heap the arena's cons cells, and log a  *)
(* history of the steps taken (it records, it never decides).              *)
(* One action of the state machine is one call of the top-level eval.      *)
(***************************************************************************)
EXTENDS Integers, Sequences, FiniteSets, TLC

VARIABLES env, heap, functions, form, result, log, phase, declared,
          objects, operation, frozen

\* the interpreter's part of the state, and the whole state
interpreter == <<env, heap, functions, form, result, log, phase, declared>>
vars == <<env, heap, functions, form, result, log, phase, declared,
          objects, operation, frozen>>

---------------------------------------------------------------------------
(* Objects: a tagged union, here a tuple whose first element is the tag.   *)

NIL == <<"nil">>
TRUE_ == <<"t">>
IntObj(n) == <<"int", n>>
Sym(s) == <<"sym", s>>
Str(s) == <<"str", s>>
\* a proper list read from source text; the empty list is nil
List(s) == IF s = <<>> THEN NIL ELSE <<"list", s>>
\* a one-element dotted pair (a . tail), tail not a list
Dot(a, tail) == <<"dot", <<a>>, tail>>
\* a member of a closure environment: a binding cell of the arena
Cell(a) == <<"cell", a>>
\* a closure object (closure ENV . REST): ENV the list of the captured binding
\* cells, ended by t
Closure(e, rest) == <<"closure", e, rest>>
\* a native function
Subr(name) == <<"subr", name>>

IsSymbol(o) == o[1] = "sym"
IsCons(o) == o[1] \in {"list", "dot", "closure"}
IsList(o) == o[1] \in {"list", "nil"}
\* the elements of a list object
Elements(o) == IF o[1] = "list" THEN o[2] ELSE <<>>

\* Option
None == <<"None">>
Some(x) == <<"Some", x>>

\* the names of the model's symbols that begin with ':'
KeywordNames == {":k"}
starts_with_colon(name) == name \in KeywordNames

---------------------------------------------------------------------------
(* EvalResult and EvalError                                                *)

Ok(v) == [ok |-> TRUE, val |-> v, error |-> None, backtrace |-> <<>>]
new_error(msg) == [ok |-> FALSE, val |-> NIL, error |-> Some(msg), backtrace |-> <<>>]
\* a throw: an EvalError whose error is None
throw_signal == [ok |-> FALSE, val |-> NIL, error |-> None, backtrace |-> <<>>]
add_trace(e, name) == [e EXCEPT !.backtrace = Append(@, name)]
\* format!("{e}"): the message, then the backtrace lines
Display(e) == <<IF e.error = None THEN "" ELSE e.error[2], e.backtrace>>

\* an operator's outcome: the result and the machine it leaves
Out(r, m) == [r |-> r, m |-> m]
Record(m, ev) == [m EXCEPT !.log = Append(@, ev)]

---------------------------------------------------------------------------
(* Cons cells of the arena                                                 *)

\* Cons::new
Cons_new(car, cdr) ==
    [type |-> "cons", marked |-> FALSE, mutable |-> TRUE, car |-> car, cdr |-> cdr]
\* cons!(car, cdr; cx): the arena with the new cell, whose address is its length
alloc(h, car, cdr) == Append(h, Cons_new(car, cdr))
\* Cons::set_cdr: the cell after the call and the call's result
set_cdr(cons, new_cdr) ==
    IF cons.mutable
    THEN [cons |-> [cons EXCEPT !.cdr = new_cdr], res |-> "ok"]
    ELSE [cons |-> cons, res |-> "Attempt to call set-cdr on immutable cons cell"]

---------------------------------------------------------------------------
(* Environment                                                             *)

Environment_default == [vars |-> <<>>, catch_stack |-> <<>>, thrown |-> <<NIL, NIL>>]
\* env.vars is a map from symbol names to values
HasVar(e, name) == name \in DOMAIN e.vars
GetVar(e, name) == e.vars[name]
set_var(e, name, v) ==
    [e EXCEPT !.vars = [x \in (DOMAIN e.vars) \cup {name} |->
                          IF x = name THEN v ELSE e.vars[x]]]

---------------------------------------------------------------------------
(* Interpreter: variable reference and assignment                          *)

\* the lexical stack as (symbol, value) pairs, oldest first
Bindings(m) == [i \in DOMAIN m.vars |-> <<m.heap[m.vars[i]].car, m.heap[m.vars[i]].cdr>>]
\* what a step sees and leaves: the machine without its history
Snap(m) == [vars |-> m.vars, bindings |-> Bindings(m), env |-> m.env]

\* root!(..): the values join the registered roots until the scope ends
Rooted(m, values) == [m EXCEPT !.roots = Append(@, values)]
Unrooted(m) == [m EXCEPT !.roots = SubSeq(@, 1, Len(@) - 1)]
Unroot(o) == [o EXCEPT !.m = Unrooted(@)]

\* the binding cells a value holds
RECURSIVE CellsIn(_)
CellsIn(v) ==
    IF v[1] = "cell" THEN {v[2]}
    ELSE IF v[1] = "closure" THEN CellsIn(v[2])
    ELSE IF v[1] = "list" THEN UNION {CellsIn(v[2][i]) : i \in DOMAIN v[2]}
    ELSE IF v[1] = "dot" THEN CellsIn(v[2][1]) \cup CellsIn(v[3])
    ELSE {}
CellsOfAll(values) == UNION {CellsIn(values[i]) : i \in DOMAIN values}

\* the cells the registered roots hold: the lexical stack, the roots of the
\* frames, the Environment and the function cells
root_cells(m) ==
    {m.vars[i] : i \in DOMAIN m.vars}
    \cup UNION {CellsOfAll(m.roots[i]) : i \in DOMAIN m.roots}
    \cup UNION {CellsIn(m.env.vars[x]) : x \in DOMAIN m.env.vars}
    \cup CellsOfAll(m.env.catch_stack) \cup CellsOfAll(m.env.thrown)
    \cup UNION {CellsIn(m.fns[x]) : x \in DOMAIN m.fns}

\* the mark phase on the binding cells: a marked cell marks what its cdr holds
RECURSIVE mark_cells(_, _)
mark_cells(h, marked) ==
    IF UNION {CellsIn(h[a].cdr) : a \in marked} \subseteq marked THEN marked
    ELSE mark_cells(h, marked \cup UNION {CellsIn(h[a].cdr) : a \in marked})

\* cx.garbage_collect(false): the cells a collection here keeps, and the
\* number of cells the arena has
Safepoint(m) == [live |-> mark_cells(m.heap, root_cells(m)), cells |-> Len(m.heap)]

\* a search of the lexical stack from the oldest binding
find_binding_oldest(m, sym) ==
    LET hits == {i \in DOMAIN m.vars : m.heap[m.vars[i]].car = sym}
    IN IF hits = {} THEN 0 ELSE CHOOSE i \in hits : \A j \in hits : i <= j

\* self.vars.iter().rev().find(..): the position of the most recent binding
\* of the symbol, 0 when there is none
find_binding(m, sym) ==
    LET hits == {i \in DOMAIN m.vars : m.heap[m.vars[i]].car = sym}
    IN IF hits = {} THEN 0 ELSE CHOOSE i \in hits : \A j \in hits : j <= i

var_ref(sym, m) ==
    LET i == find_binding(m, sym)
        r == IF starts_with_colon(sym[2]) THEN Ok(sym)
             ELSE IF i # 0 THEN Ok(m.heap[m.vars[i]].cdr)
             ELSE IF HasVar(m.env, sym[2]) THEN Ok(GetVar(m.env, sym[2]))
             ELSE new_error("Void variable")
    IN Out(r, Record(m, [k |-> "var_ref", sym |-> sym, pre |-> Snap(m), res |-> r]))

\* an assignment that writes the dynamic table whenever it has the symbol
var_set_dynamic_first(name, new_value, m) ==
    LET i == find_binding(m, name)
        m1 == IF i # 0 /\ ~HasVar(m.env, name[2])
              THEN [m EXCEPT !.heap[m.vars[i]] = set_cdr(@, new_value).cons]
              ELSE [m EXCEPT !.env = set_var(@, name[2], new_value)]
    IN Record(m1, [k |-> "var_set", name |-> name, value |-> new_value,
                   pre |-> Snap(m), post |-> Snap(m1)])

var_set(name, new_value, m) ==
    LET i == find_binding(m, name)
        m1 == IF i # 0
              THEN [m EXCEPT !.heap[m.vars[i]] = set_cdr(@, new_value).cons]
              ELSE [m EXCEPT !.env = set_var(@, name[2], new_value)]
    IN Record(m1, [k |-> "var_set", name |-> name, value |-> new_value,
                   pre |-> Snap(m), post |-> Snap(m1)])

---------------------------------------------------------------------------
(* Interpreter: special forms.  An operator that goes on after a nested    *)
(* evaluation hands the outcome o of that evaluation to the operator that  *)
(* holds the rest of the function.                                         *)

RECURSIVE eval_form(_, _), implicit_progn(_, _, _), let_bind_serial(_, _, _),
          let_collect(_, _, _), let_install(_, _, _), eval_args(_, _, _),
          call(_, _, _, _), handlers_loop(_, _, _, _), setq_loop(_, _, _, _),
          progx_loop(_, _, _, _, _), eval_while(_, _), cond_loop(_, _),
          and_loop(_, _, _), or_loop(_, _)

ArgError(name) == new_error("ArgError " \o name)
TypeError(expected) == new_error("TypeError " \o expected)

quote(forms, m) ==
    IF Len(forms) = 1 THEN Out(Ok(forms[1]), m) ELSE Out(ArgError("quote"), m)

\* let value = self.eval_form(form, cx)?; last.set(value)
progn_next(rest, o) == IF ~o.r.ok THEN o ELSE implicit_progn(rest, o.r.val, o.m)

\* while let Some(form) = forms.next() { .. }
implicit_progn(forms, last, m) ==
    IF forms = <<>> THEN Out(Ok(last), m)
    ELSE progn_next(Tail(forms), eval_form(Head(forms), m))

\* a catch that takes every throw for its own
catch_result_any(o) ==
    IF o.r.ok THEN o.r
    ELSE IF o.r.error = None THEN Ok(o.m.env.thrown[2])
    ELSE o.r

\* the match on the outcome o of the body: a throw whose tag equals the tag
\* on top of the catch stack is recovered
catch_result(o) ==
    IF o.r.ok THEN o.r
    ELSE IF /\ o.r.error = None
            /\ o.m.env.catch_stack[Len(o.m.env.catch_stack)] = o.m.env.thrown[1]
         THEN Ok(o.m.env.thrown[2])
         \* Either this was not a throw or the tag does not match this catch block
         ELSE o.r

\* a catch that pops its tag only when it returns a value
catch_pop_on_value(tag, m, o) ==
    Out(catch_result(o),
        Record([o.m EXCEPT !.env.catch_stack =
                               IF catch_result(o).ok THEN SubSeq(@, 1, Len(@) - 1) ELSE @],
               [k |-> "catch", tag |-> tag, depth |-> Len(m.env.catch_stack) + 1,
                body |-> o.r, res |-> catch_result(o), form |-> tag, pre |-> Snap(m),
                thrown |-> o.m.env.thrown,
                post |-> Snap([o.m EXCEPT !.env.catch_stack =
                                 IF catch_result(o).ok THEN SubSeq(@, 1, Len(@) - 1) ELSE @])]))

\* pop this tag from the catch stack
catch_pop(tag, m, o) ==
    Out(catch_result(o),
        Record([o.m EXCEPT !.env.catch_stack = SubSeq(@, 1, Len(@) - 1)],
               [k |-> "catch", tag |-> tag, depth |-> Len(m.env.catch_stack) + 1,
                body |-> o.r, res |-> catch_result(o), form |-> tag, pre |-> Snap(m),
                thrown |-> o.m.env.thrown,
                post |-> Snap([o.m EXCEPT !.env.catch_stack = SubSeq(@, 1, Len(@) - 1)])]))

catch(forms, m) ==
    IF forms = <<>> THEN Out(ArgError("catch"), m)
    \* push this tag on the catch stack
    ELSE catch_pop(Head(forms), m,
                   implicit_progn(Tail(forms), NIL,
                                  [m EXCEPT !.env.catch_stack = Append(@, Head(forms))]))

\* a throw that does not look for its tag on the catch stack
throw_unchecked(forms, m) ==
    IF Len(forms) # 2 THEN Out(ArgError("throw"), m)
    ELSE LET m1 == [m EXCEPT !.env.thrown = <<forms[1], forms[2]>>]
         IN Out(throw_signal, Record(m1, [k |-> "throw", tag |-> forms[1],
                                          value |-> forms[2], res |-> throw_signal,
                                          tag_form |-> forms[1], value_form |-> forms[2],
                                          pre |-> Snap(m), post |-> Snap(m1)]))

throw(forms, m) ==
    IF Len(forms) # 2 THEN Out(ArgError("throw"), m)
    ELSE LET tag == forms[1]
             value == forms[2]
             found == \E i \in DOMAIN m.env.catch_stack : m.env.catch_stack[i] = tag
             m1 == IF found THEN [m EXCEPT !.env.thrown = <<tag, value>>] ELSE m
             \* a None error means this a throw
             r == IF found THEN throw_signal ELSE new_error("No catch for tag")
         IN Out(r, Record(m1, [k |-> "throw", tag |-> tag, value |-> value, res |-> r,
                               tag_form |-> forms[1], value_form |-> forms[2],
                               pre |-> Snap(m), post |-> Snap(m1)]))

\* the log keeps what defvar found when it started, what the value form left
\* and what the assignment left
defvar_done(forms, m, o, m1) ==
    Out(Ok(o.r.val), Record(m1, [k |-> "defvar", name |-> forms[1], forms |-> forms,
                                 value |-> o.r.val, start |-> Len(m.log),
                                 pre |-> Snap(o.m), post |-> Snap(m1)]))

\* self.var_set(name, value, cx); Ok(value)
defvar_set(forms, m, o) ==
    IF ~o.r.ok THEN o ELSE defvar_done(forms, m, o, var_set(forms[1], o.r.val, o.m))

defvar(forms, m) ==
    IF forms = <<>> THEN Out(ArgError("defvar"), m)
    ELSE IF ~IsSymbol(forms[1]) THEN Out(TypeError("Symbol"), m)
    ELSE defvar_set(forms, m,
                    IF Len(forms) >= 2 THEN eval_form(forms[2], m) ELSE Out(Ok(NIL), m))

\* Cons::clone_in: a new cell for every cell reached, its car and cdr cloned.
\* c is the copy so far and the arena it is made in.
RECURSIVE clone_in(_, _), clone_members(_, _, _)
clone_cell(members, i, c, v) ==
    clone_members(members, i + 1,
                  [obj |-> Append(c.obj, Cell(Len(v.h) + 1)),
                   h |-> alloc(v.h, c.h[members[i][2]].car, v.obj)])

clone_members(members, i, c) ==
    IF i > Len(members) THEN c
    ELSE IF members[i][1] = "cell"
    THEN clone_cell(members, i, c, clone_in(c.h[members[i][2]].cdr, c.h))
    ELSE clone_members(members, i + 1, [c EXCEPT !.obj = Append(@, members[i])])

clone_closure(obj, c) == [obj |-> Closure(List(c.obj), obj[3]), h |-> c.h]

\* a copy that is the object itself, cells included
clone_in_shallow(obj, h) == [obj |-> obj, h |-> h]

clone_in(obj, h) ==
    IF obj[1] = "closure"
    THEN clone_closure(obj, clone_members(Elements(obj[2]), 1, [obj |-> <<>>, h |-> h]))
    ELSE [obj |-> obj, h |-> h]

\* the log keeps the object the function form returned
function_done(forms, m, obj) ==
    Out(Ok(obj), Record(m, [k |-> "function", arg |-> forms[1], res |-> obj,
                            pre |-> Snap(m)]))

\* a function form whose environment list lacks the final t
eval_function_no_sentinel(forms, m) ==
    IF Len(forms) # 1 THEN Out(ArgError("function"), m)
    ELSE IF forms[1][1] = "list" /\ forms[1][2][1] = Sym("lambda")
    THEN function_done(forms, m, Closure(List([i \in DOMAIN m.vars |-> Cell(m.vars[i])]),
                                         Tail(forms[1][2])))
    ELSE function_done(forms, m, forms[1])
\* a closure over copies c of the cells of the lexical stack
eval_function_copied(forms, m, c) ==
    function_done(forms, [m EXCEPT !.heap = c.h],
                  Closure(List(c.obj \o <<TRUE_>>), Tail(forms[1][2])))

eval_function_copy(forms, m) ==
    IF Len(forms) # 1 THEN Out(ArgError("function"), m)
    ELSE IF forms[1][1] = "list" /\ forms[1][2][1] = Sym("lambda")
    THEN eval_function_copied(forms, m,
                              clone_members([i \in DOMAIN m.vars |-> Cell(m.vars[i])], 1,
                                            [obj |-> <<>>, h |-> m.heap]))
    ELSE function_done(forms, m, forms[1])


eval_function(forms, m) ==
    IF Len(forms) # 1 THEN Out(ArgError("function"), m)
    ELSE IF forms[1][1] = "list" /\ forms[1][2][1] = Sym("lambda")
    \* slice_into_list(env, Some(cons!(true))): the cells of self.vars, then t
    THEN function_done(forms, m, Closure(List([i \in DOMAIN m.vars |-> Cell(m.vars[i])]
                                              \o <<TRUE_>>),
                                         Tail(forms[1][2])))
    ELSE function_done(forms, m, forms[1])

\* the branch taken on the outcome c of the condition
if_branch(forms, c) ==
    IF ~c.r.ok THEN c
    ELSE IF c.r.val # NIL THEN eval_form(forms[2], c.m)
    ELSE implicit_progn(SubSeq(forms, 3, Len(forms)), NIL, c.m)

eval_if(forms, m) ==
    IF Len(forms) < 2 THEN Out(ArgError("if"), m)
    ELSE if_branch(forms, eval_form(forms[1], m))

\* the end of a setq, with its result
setq_exit(r, m) == Out(r, Record(m, [k |-> "setq_exit", res |-> r]))

\* a setq that evaluates the value form and leaves the variable as it was
setq_assign_nothing(forms, arg_cnt, o) ==
    IF ~o.r.ok THEN setq_exit(o.r, o.m)
    ELSE setq_loop(SubSeq(forms, 3, Len(forms)), arg_cnt + 2, o.r.val, o.m)

\* self.var_set(var, val, cx); last_value.set(val); arg_cnt += 2
setq_assign(forms, arg_cnt, o) ==
    IF ~o.r.ok THEN setq_exit(o.r, o.m)
    ELSE setq_loop(SubSeq(forms, 3, Len(forms)), arg_cnt + 2, o.r.val,
                   var_set(forms[1], o.r.val, o.m))

\* while let Some((var, val)) = Self::pairs(&mut forms, cx) { .. }
setq_loop(forms, arg_cnt, last_value, m) ==
    IF forms = <<>>
    THEN IF arg_cnt < 2 THEN setq_exit(ArgError("setq"), m) ELSE setq_exit(Ok(last_value), m)
    ELSE IF Len(forms) = 1 THEN setq_exit(ArgError("setq"), m)
    ELSE IF ~IsSymbol(forms[1]) THEN setq_exit(TypeError("Symbol"), m)
    ELSE setq_assign(forms, arg_cnt,
                     eval_form(forms[2],
                               Record(m, [k |-> "setq_pair", index |-> (arg_cnt \div 2) + 1,
                                          var |-> forms[1], form |-> forms[2]])))

setq(forms, m) == setq_loop(forms, 0, NIL, m)

\* the checks that follow the evaluation of the initializer; the name and the
\* value are returned in val as <<name, value>>
let_value_check(cons, o) ==
    IF ~o.r.ok THEN o
    ELSE IF Len(cons[2]) > 2 THEN Out(new_error("Let binding can only have 1 value"), o.m)
    ELSE IF ~IsSymbol(cons[2][1]) THEN Out(new_error("let variable must be a symbol"), o.m)
    ELSE Out(Ok(<<cons[2][1], o.r.val>>), o.m)

let_bind_value(cons, m) ==
    let_value_check(cons, IF Len(Elements(cons)) > 1 THEN eval_form(cons[2][2], m)
                          ELSE Out(Ok(NIL), m))

\* what let_bind_serial and let_bind_parallel work on: the machine and the
\* caller's dynamic_bindings vector
Frame(r, m, dynamic_bindings) == [r |-> r, m |-> m, dynamic_bindings |-> dynamic_bindings]

\* a binding step that never looks at the dynamic table
install_binding_lexical(var, val, f) ==
    Frame(f.r, [f.m EXCEPT !.heap = alloc(@, var, val),
                           !.vars = Append(@, Len(f.m.heap) + 1)],
          f.dynamic_bindings)

\* the body shared by let_bind_serial and the second loop of let_bind_parallel:
\* a symbol of the dynamic table is rebound there and its previous value
\* remembered, any other symbol gets a new cell on the lexical stack
install_binding(var, val, f) ==
    IF HasVar(f.m.env, var[2])
    THEN Frame(f.r, [f.m EXCEPT !.env = set_var(@, var[2], val)],
               Append(f.dynamic_bindings, <<var, GetVar(f.m.env, var[2])>>))
    ELSE Frame(f.r, [f.m EXCEPT !.heap = alloc(@, var, val),
                                !.vars = Append(@, Len(f.m.heap) + 1)],
               f.dynamic_bindings)

\* (let ((x y))) / (let (x)) / (let (1))
let_binding(b, m) ==
    IF IsCons(b) THEN let_bind_value(b, m)
    ELSE IF IsSymbol(b) THEN Out(Ok(<<b, NIL>>), m)
    ELSE Out(TypeError("Cons"), m)

\* the values of a vector of (symbol, value) pairs
Seconds(pairs) == [i \in DOMAIN pairs |-> pairs[i][2]]

\* the loop goes on from the frame the binding left
serial_next(rest, f) == let_bind_serial(rest, f.dynamic_bindings, f.m)

\* the binding is installed as soon as its initializer is evaluated
serial_install(rest, dynamic_bindings, o) ==
    IF ~o.r.ok THEN Frame(o.r, Unrooted(o.m), dynamic_bindings)
    ELSE serial_next(rest, install_binding(o.r.val[1], o.r.val[2],
                                           Frame(o.r, Unrooted(o.m), dynamic_bindings)))

\* dynamic_bindings is the rooted vector of eval_let
let_bind_serial(bindings, dynamic_bindings, m) ==
    IF bindings = <<>> THEN Frame(Ok(NIL), m, dynamic_bindings)
    ELSE serial_install(Tail(bindings), dynamic_bindings,
                        let_binding(Head(bindings), Rooted(m, Seconds(dynamic_bindings))))

\* let_bindings.push((sym, val))
collect_next(rest, let_bindings, o) ==
    IF ~o.r.ok THEN Unroot(o)
    ELSE let_collect(rest, Append(let_bindings, o.r.val), Unrooted(o.m))

\* first loop of let_bind_parallel: evaluate every initializer into
\* let_bindings, a rooted vector
let_collect(bindings, let_bindings, m) ==
    IF bindings = <<>> THEN Out(Ok(let_bindings), m)
    ELSE collect_next(Tail(bindings), let_bindings,
                      let_binding(Head(bindings), Rooted(m, Seconds(let_bindings))))

\* second loop of let_bind_parallel
let_install(let_bindings, i, f) ==
    IF i > Len(let_bindings) THEN f
    ELSE let_install(let_bindings, i + 1,
                     install_binding(let_bindings[i][1], let_bindings[i][2], f))

\* the second loop starts when the first has evaluated every initializer
parallel_install(dynamic_bindings, o) ==
    IF ~o.r.ok THEN Frame(o.r, o.m, dynamic_bindings)
    ELSE let_install(o.r.val, 1, Frame(Ok(NIL), o.m, dynamic_bindings))

\* a let that installs each binding as soon as its initializer is evaluated
let_bind_parallel_as_serial(bindings, dynamic_bindings, m) ==
    let_bind_serial(bindings, dynamic_bindings, m)

let_bind_parallel(bindings, dynamic_bindings, m) ==
    parallel_install(dynamic_bindings, let_collect(bindings, <<>>, m))

\* an exit of let that puts no previous value back
restore_dynamic_skip(dynamic_bindings, i, e) == e

\* for binding in dynamic_bindings.iter() { current_val.set(val) }
RECURSIVE restore_dynamic(_, _, _)
restore_dynamic(dynamic_bindings, i, e) ==
    IF i > Len(dynamic_bindings) THEN e
    ELSE restore_dynamic(dynamic_bindings, i + 1,
                         set_var(e, dynamic_bindings[i][1][2], dynamic_bindings[i][2]))

\* the let returns out; the log keeps what it saw on entry, after binding and
\* on exit
let_leave(forms, parallel, m, b, out, exit) ==
    Out(out.r, Record(out.m, [k |-> "let", parallel |-> parallel,
                              bindings |-> forms[1], body |-> Tail(forms),
                              exit |-> exit, res |-> out.r,
                              start |-> Len(m.log), body_start |-> Len(b.m.log) + 1,
                              dynamic_bindings |-> b.dynamic_bindings,
                              pre |-> Snap(m), bound |-> Snap(b.m),
                              post |-> Snap(out.m)]))

\* let obj = self.implicit_progn(iter, cx)?: an error of the body leaves the
\* function here; otherwise the old bindings are removed and the previous
\* values of the dynamic bindings put back
let_exit(forms, parallel, m, b, o) ==
    IF ~o.r.ok THEN let_leave(forms, parallel, m, b, Unroot(o), "body_err")
    ELSE let_leave(forms, parallel, m, b,
                   Out(o.r, [o.m EXCEPT !.vars = SubSeq(@, 1, Len(m.vars)),
                                        !.env = restore_dynamic(b.dynamic_bindings, 1, @),
                                        !.roots = m.roots]),
                   "ok")

\* Self::let_bind_*(..)?: an error of a binding leaves the function here
let_body(forms, parallel, m, b) ==
    IF ~b.r.ok THEN let_leave(forms, parallel, m, b, Out(b.r, b.m), "bind_err")
    \* the log marks the start of the body
    \* and the previous values of the dynamic bindings stay rooted
    ELSE let_exit(forms, parallel, m, b,
                  implicit_progn(Tail(forms), NIL,
                                 Rooted(Record(b.m, [k |-> "let_body"]),
                                        Seconds(b.dynamic_bindings))))

eval_let(forms, parallel, m) ==
    IF forms = <<>> THEN Out(ArgError("let"), m)
    ELSE let_body(forms, parallel, m,
                  IF parallel THEN let_bind_parallel(Elements(forms[1]), <<>>, m)
                  ELSE let_bind_serial(Elements(forms[1]), <<>>, m))

\* for x in cons.elements(): every member of a condition list is debug or error
condition_list_ok(elems) == \A i \in DOMAIN elems : elems[i] \in {Sym("debug"), Sym("error")}

\* self.vars.push(binding): the handler sees (var error "message")
handler_bound(var, e, m) ==
    [m EXCEPT !.heap = alloc(@, var, List(<<Sym("error"), Str(Display(e))>>)),
              !.vars = Append(@, Len(m.heap) + 1)]

handler_entered(h, var, e, m) ==
    Record(handler_bound(var, e, m),
           [k |-> "cc_handler", var |-> var, handler |-> h, error |-> e,
            pre |-> Snap(m), bound |-> Snap(handler_bound(var, e, m))])

\* let result = self.implicit_progn(list, cx)?; self.vars.pop()
handler_leave(o) ==
    IF ~o.r.ok THEN o ELSE Out(o.r, [o.m EXCEPT !.vars = SubSeq(@, 1, Len(@) - 1)])

\* a handler that evaluates the first form of its body only
handler_run_first(h, var, e, m) ==
    IF h[1] = "dot" THEN Out(Ok(NIL), handler_entered(h, var, e, m))
    ELSE handler_leave(implicit_progn(IF Len(h[2]) > 1 THEN <<h[2][2]>> ELSE <<>>, NIL,
                                      handler_entered(h, var, e, m)))

\* Call handlers with error: the body of handler h, when it is a list
handler_run(h, var, e, m) ==
    IF h[1] = "dot" THEN Out(Ok(NIL), handler_entered(h, var, e, m))
    ELSE handler_leave(implicit_progn(Tail(h[2]), NIL, handler_entered(h, var, e, m)))

\* a scan that ends without a handler and returns nil
handlers_exhausted_nil(e, m) == Out(Ok(NIL), m)

\* Err(e) after the loop: no handler took the error
handlers_exhausted(e, m) == Out(e, m)

\* a scan that passes over a handler that is neither a cons nor nil
handler_invalid_skipped(handlers, var, e, m) == handlers_loop(Tail(handlers), var, e, m)

\* invalid => bail_err!("{CONDITION_ERROR} {invalid}")
handler_invalid(handlers, var, e, m) == Out(new_error("Invalid condition handler"), m)

\* while let Some(handler) = forms.next() { .. }; e is the error of the body form
handlers_loop(handlers, var, e, m) ==
    IF handlers = <<>> THEN handlers_exhausted(e, m)
    ELSE IF Head(handlers)[1] \in {"list", "dot"}
    THEN IF Head(handlers)[2][1] # Sym("error") /\ Head(handlers)[2][1][1] # "list"
         THEN Out(new_error("Invalid condition handler"), m)
         ELSE IF /\ Head(handlers)[2][1][1] = "list"
                 /\ ~condition_list_ok(Head(handlers)[2][1][2])
         THEN Out(new_error("non-error conditions not yet supported"), m)
         ELSE handler_run(Head(handlers), var, e, m)
    ELSE IF Head(handlers) = NIL THEN handlers_loop(Tail(handlers), var, e, m)
    ELSE handler_invalid(handlers, var, e, m)

\* the log marks the end of the body form
cc_marked(o) == Record(o.m, [k |-> "cc_body", res |-> o.r])

cc_leave(forms, m, o, out) ==
    Out(out.r, Record(out.m, [k |-> "cc", bodyform |-> forms[2], var |-> forms[1],
                              handlers |-> SubSeq(forms, 3, Len(forms)),
                              body |-> o.r, res |-> out.r, mark |-> Len(o.m.log) + 1,
                              pre |-> Snap(m), after_body |-> Snap(o.m),
                              post |-> Snap(out.m)]))

\* a condition-case that hands every failure of its body form on, handlers unread
cc_handle_rethrow(forms, o) == Out(o.r, cc_marked(o))

\* a condition-case that scans its handlers for a throw as for an error
cc_handle_throw(forms, o) ==
    IF o.r.ok THEN Out(o.r, cc_marked(o))
    ELSE handlers_loop(SubSeq(forms, 3, Len(forms)), forms[1], o.r, cc_marked(o))

\* match self.eval_form(form, cx): what follows the outcome o of the body form
cc_handle(forms, o) ==
    IF o.r.ok THEN Out(o.r, cc_marked(o))
    \* This is a throw
    ELSE IF o.r.error = None THEN Out(o.r, cc_marked(o))
    ELSE handlers_loop(SubSeq(forms, 3, Len(forms)), forms[1], o.r, cc_marked(o))

cc_body(forms, m, o) == cc_leave(forms, m, o, cc_handle(forms, o))

condition_case(forms, m) ==
    IF Len(forms) < 2 THEN Out(ArgError("condition-case"), m)
    ELSE cc_body(forms, m, eval_form(forms[2], m))

\* the steps of a form that evaluates its subforms in turn: a subform is
\* taken up, it has come out as o, the form is left with the result r
sub(of, subform, m) == Record(m, [k |-> "sub", of |-> of, form |-> subform])
sub_done(of, o) == Record(o.m, [k |-> "sub_done", of |-> of, res |-> o.r])
leave(of, r, m) == Out(r, Record(m, [k |-> "leave", of |-> of, res |-> r]))
ProgName(prog_num) == IF prog_num = 1 THEN "prog1" ELSE "prog2"

\* a prog1 or prog2 that keeps the value of the form evaluated last
progx_next_latest(rest, prog_num, count, returned_form, o) ==
    IF ~o.r.ok THEN Unroot(leave(ProgName(prog_num), o.r, sub_done(ProgName(prog_num), o)))
    ELSE progx_loop(rest, prog_num, count + 1,
                    IF prog_num <= count + 1 THEN Some(o.r.val) ELSE returned_form,
                    Unrooted(sub_done(ProgName(prog_num), o)))

\* if prog_num == count { returned_form = Some(value) }
progx_next(rest, prog_num, count, returned_form, o) ==
    IF ~o.r.ok THEN Unroot(leave(ProgName(prog_num), o.r, sub_done(ProgName(prog_num), o)))
    ELSE progx_loop(rest, prog_num, count + 1,
                    IF prog_num = count + 1 THEN Some(o.r.val) ELSE returned_form,
                    Unrooted(sub_done(ProgName(prog_num), o)))

progx_loop(forms, prog_num, count, returned_form, m) ==
    IF forms = <<>>
    THEN IF returned_form = None
         THEN leave(ProgName(prog_num), ArgError(ProgName(prog_num)), m)
         ELSE leave(ProgName(prog_num), Ok(returned_form[2]), m)
    \* root!(returned_form, None, cx)
    ELSE progx_next(Tail(forms), prog_num, count, returned_form,
                    eval_form(Head(forms),
                              Rooted(sub(ProgName(prog_num), Head(forms), m),
                                     IF returned_form = None THEN <<>>
                                     ELSE <<returned_form[2]>>)))

eval_progx(forms, prog_num, m) == progx_loop(forms, prog_num, 0, None, m)

eval_progn(forms, m) == implicit_progn(forms, NIL, m)

while_next(forms, b) == IF ~b.r.ok THEN b ELSE eval_while(forms, b.m)

\* the body of the loop runs over every element of obj, the condition included
while_test(forms, c) ==
    IF ~c.r.ok THEN c
    ELSE IF c.r.val = NIL
    THEN Out(Ok(NIL), Record(c.m, [k |-> "while_test", forms |-> forms, res |-> c.r]))
    ELSE while_next(forms,
                    implicit_progn(forms, NIL,
                                   Record(c.m, [k |-> "while_test", forms |-> forms,
                                                res |-> c.r])))

eval_while(forms, m) ==
    IF forms = <<>> THEN Out(ArgError("while"), m)
    ELSE while_test(forms, eval_form(forms[1], m))

\* the body of the clause that was taken came out as o
cond_body(o) == leave("cond", o.r, o.m)

\* a cond that goes on to the next clause after the body of a clause
cond_clause_falls_through(forms, c) ==
    IF ~c.r.ok THEN leave("cond", c.r, sub_done("cond", c))
    ELSE IF c.r.val # NIL
    THEN IF Len(Elements(Head(forms))) = 1 THEN leave("cond", c.r, sub_done("cond", c))
         ELSE cond_loop(Tail(forms),
                        implicit_progn(Tail(Elements(Head(forms))), NIL,
                                       Record(sub_done("cond", c),
                                              [k |-> "body", of |-> "cond",
                                               forms |-> Tail(Elements(Head(forms)))])).m)
    ELSE cond_loop(Tail(forms), sub_done("cond", c))

\* the clause whose condition came out as c
cond_clause(forms, c) ==
    IF ~c.r.ok THEN leave("cond", c.r, sub_done("cond", c))
    ELSE IF c.r.val # NIL
    THEN IF Len(Elements(Head(forms))) = 1 THEN leave("cond", c.r, sub_done("cond", c))
         ELSE cond_body(implicit_progn(Tail(Elements(Head(forms))), NIL,
                                       Record(sub_done("cond", c),
                                              [k |-> "body", of |-> "cond",
                                               forms |-> Tail(Elements(Head(forms)))])))
    ELSE cond_loop(Tail(forms), sub_done("cond", c))

cond_loop(forms, m) ==
    IF forms = <<>> THEN leave("cond", Ok(NIL), m)
    ELSE IF Elements(Head(forms)) = <<>> THEN cond_loop(Tail(forms), m)
    ELSE cond_clause(forms, eval_form(Elements(Head(forms))[1],
                                      sub("cond", Elements(Head(forms))[1], m)))

eval_cond(forms, m) == cond_loop(forms, m)

\* an and that goes on after a form that yields nil
and_next_to_the_end(rest, o) ==
    IF ~o.r.ok THEN leave("and", o.r, sub_done("and", o))
    ELSE and_loop(rest, o.r.val, sub_done("and", o))

and_next(rest, o) ==
    IF ~o.r.ok THEN leave("and", o.r, sub_done("and", o))
    ELSE IF o.r.val = NIL THEN leave("and", Ok(NIL), sub_done("and", o))
    ELSE and_loop(rest, o.r.val, sub_done("and", o))

and_loop(forms, last, m) ==
    IF forms = <<>> THEN leave("and", Ok(last), m)
    ELSE and_next(Tail(forms), eval_form(Head(forms), sub("and", Head(forms), m)))

eval_and(forms, m) == and_loop(forms, TRUE_, m)

or_next(rest, o) ==
    IF ~o.r.ok THEN leave("or", o.r, sub_done("or", o))
    ELSE IF o.r.val # NIL THEN leave("or", o.r, sub_done("or", o))
    ELSE or_loop(rest, sub_done("or", o))

or_loop(forms, m) ==
    IF forms = <<>> THEN leave("or", Ok(NIL), m)
    ELSE or_next(Tail(forms), eval_form(Head(forms), sub("or", Head(forms), m)))

eval_or(forms, m) == or_loop(forms, m)

---------------------------------------------------------------------------
(* Function calls and closures                                             *)

\* parse_arg_list: (required, optional, rest) of an argument list, or an error.
\* The walk is the while-let loop of the source; at is the vector arg_type points to.
RECURSIVE parse_arg_loop(_, _, _)
parse_arg_loop(iter, at, acc) ==
    IF iter = <<>> THEN Ok(acc)
    ELSE LET sym == Head(iter)
         IN IF ~IsSymbol(sym) THEN TypeError("Symbol")
            ELSE IF sym[2] = "&optional" THEN parse_arg_loop(Tail(iter), "optional", acc)
            ELSE IF sym[2] = "&rest"
            THEN IF Len(iter) = 1 THEN parse_arg_loop(<<>>, at, acc)
                 ELSE IF ~IsSymbol(iter[2]) THEN TypeError("Symbol")
                 ELSE IF Len(iter) > 2 THEN new_error("Found multiple arguments after &rest")
                 ELSE parse_arg_loop(<<>>, at, [acc EXCEPT !.rest = Some(iter[2])])
            ELSE parse_arg_loop(Tail(iter), at,
                                IF at = "required"
                                THEN [acc EXCEPT !.required = Append(@, sym)]
                                ELSE [acc EXCEPT !.optional = Append(@, sym)])

parse_arg_list(bindings) ==
    IF ~IsList(bindings) THEN TypeError("List")
    ELSE parse_arg_loop(Elements(bindings), "required",
                        [required |-> <<>>, optional |-> <<>>, rest |-> None])

\* vars.push(cons!(name, val; cx)) for each name of names, values from args[from..]
RECURSIVE push_args(_, _, _, _)
push_args(names, arg_values, i, m) ==
    IF i > Len(names) THEN m
    ELSE push_args(names, arg_values, i + 1,
                   [m EXCEPT !.heap = alloc(@, names[i],
                                            IF i <= Len(arg_values) THEN arg_values[i] ELSE NIL),
                             !.vars = Append(@, Len(m.heap) + 1)])


Reverse(q) == [i \in DOMAIN q |-> q[Len(q) + 1 - i]]
\* the rest argument takes the values left over, the last of them first
bind_rest_reversed(rest, values, m) ==
    [m EXCEPT !.heap = alloc(@, rest[2], List(Reverse(values))),
              !.vars = Append(@, Len(m.heap) + 1)]

\* the rest argument takes the values left over as a list
bind_rest(rest, values, m) ==
    [m EXCEPT !.heap = alloc(@, rest[2], List(values)),
              !.vars = Append(@, Len(m.heap) + 1)]

\* a binding that lets arguments beyond the optional names pass
bind_parsed_lenient(p, args, name, m) ==
    IF ~p.ok THEN Out(p, m)
    ELSE IF Len(args) < Len(p.val.required) THEN Out(ArgError(name), m)
    ELSE IF p.val.rest # None
    THEN Out(Ok(NIL),
             bind_rest(p.val.rest,
                       SubSeq(args, Len(p.val.required) + Len(p.val.optional) + 1, Len(args)),
                       push_args(p.val.required \o p.val.optional, args, 1, m)))
    ELSE Out(Ok(NIL), push_args(p.val.required \o p.val.optional, args, 1, m))

\* the arguments are bound once the argument list is parsed into p
bind_parsed(p, args, name, m) ==
    IF ~p.ok THEN Out(p, m)
    ELSE IF Len(args) < Len(p.val.required) THEN Out(ArgError(name), m)
    ELSE IF p.val.rest # None
    THEN Out(Ok(NIL),
             bind_rest(p.val.rest,
                       SubSeq(args, Len(p.val.required) + Len(p.val.optional) + 1, Len(args)),
                       push_args(p.val.required \o p.val.optional, args, 1, m)))
    \* Ensure too many args were not provided
    ELSE IF Len(args) > Len(p.val.required) + Len(p.val.optional)
    THEN Out(ArgError(name), push_args(p.val.required \o p.val.optional, args, 1, m))
    ELSE Out(Ok(NIL), push_args(p.val.required \o p.val.optional, args, 1, m))

\* m.vars is the vector being built for the closure body
bind_args(arg_list, args, name, m) == bind_parsed(parse_arg_list(arg_list), args, name, m)

\* for form in forms: a pair is pushed, t ends the environment
RECURSIVE parse_env_loop(_, _)
parse_env_loop(forms, cells) ==
    IF forms = <<>> THEN new_error("Closure env did not end with t")
    ELSE IF Head(forms)[1] = "cell" THEN parse_env_loop(Tail(forms), Append(cells, Head(forms)[2]))
    ELSE IF Head(forms) = TRUE_ THEN Ok(cells)
    ELSE new_error("Invalid closure environment member")

\* (closure ((x . 1) (y . 2) t) ...): the captured cells start the new stack
parse_closure_env(obj) ==
    IF ~IsList(obj) THEN TypeError("List") ELSE parse_env_loop(Elements(obj), <<>>)

\* Add function arguments to variables
bind_env(closure, args, name, m, parsed) ==
    IF ~parsed.ok THEN Out(parsed, m)
    ELSE IF closure[3] = <<>> THEN Out(new_error("Closure missing argument list"), m)
    ELSE bind_args(closure[3][1], args, name, [m EXCEPT !.vars = parsed.val])

bind_variables(closure, args, name, m) ==
    bind_env(closure, args, name, m, parse_closure_env(closure[2]))

\* a return that leaves the stack of the closure body to the caller
closure_leave_keep(m, o) ==
    Out(o.r, Record([o.m EXCEPT !.roots = m.roots],
                    [k |-> "call_return", res |-> o.r, caller |-> Snap(m),
                     callee |-> Snap(o.m), post |-> Snap(o.m)]))

\* the caller's Interpreter keeps its own vars
closure_leave(m, o) ==
    Out(o.r, Record([o.m EXCEPT !.vars = m.vars, !.roots = m.roots],
                    [k |-> "call_return", res |-> o.r, caller |-> Snap(m),
                     callee |-> Snap(o.m), post |-> Snap([o.m EXCEPT !.vars = m.vars])]))

\* Interpreter { vars, env }.implicit_progn(forms, cx)
closure_body(closure, args, m, b) ==
    IF ~b.r.ok
    THEN Out(b.r, Record([b.m EXCEPT !.vars = m.vars],
                         [k |-> "bind_error", closure |-> closure, args |-> args,
                          res |-> b.r]))
    \* the caller's stack stays rooted by the caller's Interpreter
    ELSE closure_leave(m, implicit_progn(Tail(closure[3]), NIL,
                                         Rooted(Record(b.m, [k |-> "call_closure",
                                                             closure |-> closure,
                                                             args |-> args,
                                                             caller |-> Snap(m),
                                                             body |-> Snap(b.m),
                                                             safepoint |-> Safepoint(m)]),
                                                [i \in DOMAIN m.vars |-> Cell(m.vars[i])])))

call_closure(closure, args, name, m) ==
    IF closure[1] # "closure" THEN Out(TypeError("Func"), m)
    ELSE closure_body(closure, args, m, bind_variables(closure, args, name, m))

\* the function cell of the symbol gets the copy c of the definition
defalias_install(args, m, c) ==
    Out(Ok(args[1]),
        Record([m EXCEPT !.heap = c.h,
                         !.fns = [x \in (DOMAIN m.fns) \cup {args[1][2]} |->
                                    IF x = args[1][2] THEN c.obj ELSE m.fns[x]]],
               [k |-> "defalias", name |-> args[1], definition |-> args[2],
                copy |-> c.obj, heap_pre |-> m.heap, heap_post |-> c.h]))

\* the native function defalias: install a deep copy of the definition in
\* the function cell of the symbol
defalias(args, m) ==
    IF Len(args) < 2 THEN Out(ArgError("defalias"), m)
    ELSE IF ~IsSymbol(args[1]) THEN Out(TypeError("Symbol"), m)
    ELSE defalias_install(args, m, clone_in(args[2], m.heap))

\* the native function funcall: call its first argument with the others
funcall(args, m) ==
    IF args = <<>> THEN Out(ArgError("funcall"), m)
    ELSE IF args[1][1] \notin {"closure", "subr", "list", "dot"} THEN Out(TypeError("Func"), m)
    ELSE call(args[1], Tail(args), "lambda", m)

\* a call that reports every failure of the function as an error of its own
call_trace_as_error(name, o) ==
    IF o.r.ok THEN o ELSE Out(add_trace([o.r EXCEPT !.error = Some("call failed")], name), o.m)

\* .map_err(|e| e.add_trace(name, args))
call_trace(name, o) == IF o.r.ok THEN o ELSE Out(add_trace(o.r, name), o.m)

\* (*f).call(args, env, cx): the native function of the name
subr_call(name, args, m) ==
    IF name = "funcall" THEN funcall(args, m) ELSE defalias(args, m)

\* Rt<Gc<Function>>::call
call(func, args, name, m) ==
    call_trace(name, IF func[1] = "subr" THEN subr_call(func[2], args, m)
                     ELSE call_closure(func, args, name, m))

\* Symbol::follow_indirect: the function cell of a symbol
follow_indirect(name, fns) == IF name \in DOMAIN fns THEN Some(fns[name]) ELSE None

\* an argument loop that goes on to the next form after a failure and reports
\* the failure at the end
args_next_keep_going(rest, args, o) ==
    IF ~o.r.ok
    THEN Out(o.r, eval_args(rest, Append(args, NIL),
                            Unrooted(Record(o.m, [k |-> "arg_done", index |-> Len(args) + 1,
                                                  res |-> o.r,
                                                  level |-> Len(o.m.roots) - 1]))).m)
    ELSE eval_args(rest, Append(args, o.r.val),
                   Unrooted(Record(o.m, [k |-> "arg_done", index |-> Len(args) + 1,
                                         res |-> o.r, level |-> Len(o.m.roots) - 1])))

\* let result = self.eval_form(x, cx)?; args.push(result)
args_next(rest, args, o) ==
    IF ~o.r.ok
    THEN Unroot(Out(o.r, Record(o.m, [k |-> "arg_done", index |-> Len(args) + 1,
                                      res |-> o.r, level |-> Len(o.m.roots) - 1])))
    ELSE eval_args(rest, Append(args, o.r.val),
                   Unrooted(Record(o.m, [k |-> "arg_done", index |-> Len(args) + 1,
                                         res |-> o.r, level |-> Len(o.m.roots) - 1])))

\* root!(args, Vec::new(), cx): the arguments evaluated so far are rooted
\* while the next is evaluated
eval_args(iter, args, m) ==
    IF iter = <<>> THEN Out(Ok(args), m)
    ELSE args_next(Tail(iter), args,
                   eval_form(Head(iter),
                             Rooted(Record(m, [k |-> "arg", index |-> Len(args) + 1,
                                               form |-> Head(iter), level |-> Len(m.roots)]),
                                    args)))

\* func.call(args, self.env, cx, Some(name)) on the evaluated arguments,
\* rooted for the time of the call
call_evaluated(func, name, a) ==
    IF ~a.r.ok THEN a
    ELSE Unroot(call(func, a.r.val, name,
                     Rooted(Record(a.m, [k |-> "invoke", name |-> name, func |-> func,
                                         args |-> a.r.val, level |-> Len(a.m.roots)]),
                            <<func>> \o a.r.val)))

eval_call(name, args, m) ==
    IF follow_indirect(name, m.fns) = None THEN Out(new_error("Invalid function"), m)
    ELSE call_evaluated(follow_indirect(name, m.fns)[2], name,
                        eval_args(args, <<>>,
                                  Record(m, [k |-> "call_args", name |-> name, forms |-> args,
                                             level |-> Len(m.roots)])))

---------------------------------------------------------------------------
(* Dispatch                                                                *)

eval_sexp(cons, m) ==
    IF cons[1] # "list" \/ ~IsSymbol(cons[2][1]) THEN Out(new_error("Invalid Function"), m)
    ELSE CASE cons[2][1][2] = "quote" -> quote(Tail(cons[2]), m)
           [] cons[2][1][2] \in {"let", "let*"} ->
                  eval_let(Tail(cons[2]), cons[2][1][2] = "let", m)
           [] cons[2][1][2] = "if" -> eval_if(Tail(cons[2]), m)
           [] cons[2][1][2] = "and" -> eval_and(Tail(cons[2]), m)
           [] cons[2][1][2] = "or" -> eval_or(Tail(cons[2]), m)
           [] cons[2][1][2] = "cond" -> eval_cond(Tail(cons[2]), m)
           [] cons[2][1][2] = "while" -> eval_while(Tail(cons[2]), m)
           [] cons[2][1][2] = "progn" -> eval_progn(Tail(cons[2]), m)
           [] cons[2][1][2] \in {"prog1", "prog2"} ->
                  eval_progx(Tail(cons[2]), IF cons[2][1][2] = "prog1" THEN 1 ELSE 2, m)
           [] cons[2][1][2] = "setq" -> setq(Tail(cons[2]), m)
           [] cons[2][1][2] \in {"defvar", "defconst"} -> defvar(Tail(cons[2]), m)
           [] cons[2][1][2] = "function" -> eval_function(Tail(cons[2]), m)
           [] cons[2][1][2] = "interactive" -> Out(Ok(NIL), m)
           [] cons[2][1][2] = "catch" -> catch(Tail(cons[2]), m)
           [] cons[2][1][2] = "throw" -> throw(Tail(cons[2]), m)
           [] cons[2][1][2] = "condition-case" -> condition_case(Tail(cons[2]), m)
           [] OTHER -> eval_call(cons[2][1][2], Tail(cons[2]), m)

\* the log keeps every form evaluated and the depth of the catch stack then
eval_entered(rt, m) ==
    Record(m, [k |-> "eval", form |-> rt, depth |-> Len(m.env.catch_stack)])

eval_form(rt, m) ==
    IF IsSymbol(rt) THEN var_ref(rt, eval_entered(rt, m))
    ELSE IF IsCons(rt) THEN eval_sexp(rt, eval_entered(rt, m))
    ELSE Out(Ok(rt), eval_entered(rt, m))

\* the top-level entry point: a collection safepoint, an empty lexical stack,
\* then eval_form
eval(f, e, h, fns) ==
    eval_form(f, Record([vars |-> <<>>, env |-> e, heap |-> h, log |-> <<>>, fns |-> fns,
                         roots |-> <<>>],
                        [k |-> "top", form |-> f,
                         pre |-> Snap([vars |-> <<>>, env |-> e, heap |-> h]),
                         safepoint |-> Safepoint([vars |-> <<>>, env |-> e, heap |-> h,
                                                  fns |-> fns, roots |-> <<>>])]))

---------------------------------------------------------------------------
(* Programs: the forms handed to the top-level eval                        *)

MaxInt == 2
MaxNest == 3

Ints == {IntObj(i) : i \in 1..MaxInt}
\* call forms
Call(head, args) == List(<<Sym(head)>> \o args)
Throw(tag, value) == Call("throw", <<tag, value>>)
\* (if): a form that fails with an ordinary error (an arity error)
Fail == Call("if", <<>>)
Defvar(s, v) == Call("defvar", <<Sym(s), v>>)
Setq(s, v) == Call("setq", <<Sym(s), v>>)
Let(binds, body) == Call("let", <<List(binds)>> \o body)
LetStar(binds, body) == Call("let*", <<List(binds)>> \o body)
Bind(s, init) == List(<<Sym(s), init>>)
Lambda(args, body) == Call("function", <<Call("lambda", <<List(args)>> \o body)>>)
Funcall(f, args) == Call("funcall", <<f>> \o args)
\* the form evaluated after the inner form of a catch
Post == IntObj(0)
\* the value of the error handler of a condition-case wrapper
Handled == IntObj(7)
Catch(tag, inner) == Call("catch", <<tag, inner, Post>>)
CondCase(var, inner, handlers) == Call("condition-case", <<var, inner>> \o handlers)
ErrorHandler(body) == List(<<Sym("error")>> \o body)

\* a wrapper of a nest: a catch of a tag, a condition-case with an error
\* handler, or a let of foo
Wrappers == {<<"catch", t>> : t \in Ints} \cup {<<"cc">>, <<"let">>}
Wrap(w, inner) ==
    IF w[1] = "catch" THEN Catch(w[2], inner)
    ELSE IF w[1] = "cc" THEN CondCase(NIL, inner, <<ErrorHandler(<<Handled>>)>>)
    ELSE Let(<<Bind("foo", IntObj(1))>>, <<inner>>)
\* the values a throw of the model carries: a number and a symbol
ThrowValues == {IntObj(9), Sym("foo")}
Cores == {Throw(t, v) : t \in Ints, v \in ThrowValues} \cup {Fail}

\* ws[1] is the outermost wrapper
RECURSIVE Nest(_, _)
Nest(ws, core) == IF ws = <<>> THEN core ELSE Wrap(Head(ws), Nest(Tail(ws), core))
NestShapes == UNION {[1..n -> Wrappers] : n \in 0..MaxNest}
NestPrograms == {Nest(ws, c) : ws \in NestShapes, c \in Cores}

Progn(body) == Call("progn", body)
\* (let|let* BINDS BODY): one binding of foo or x to a number, then possibly a
\* second binding whose initializer is a number or reads a variable
FirstBindings == {Bind(s, i) : s \in {"foo", "x"}, i \in Ints}
SecondBindings ==
    {Bind(s, i) : s \in {"foo", "x", "y"}, i \in Ints \cup {Sym("foo"), Sym("x")}}
BindingLists ==
    {<<b>> : b \in FirstBindings} \cup {<<b, c>> : b \in FirstBindings, c \in SecondBindings}
LetBodies ==
    {<<Sym(s)>> : s \in {"foo", "x", "y"}}
    \cup {<<Setq(s, IntObj(9)), Sym(s)>> : s \in {"foo", "x"}}
    \cup {<<Fail>>,
          <<Let(<<Bind("x", IntObj(8))>>, <<Sym("x")>>), Sym("x")>>}
LetForms ==
    {Let(bs, body) : bs \in BindingLists, body \in LetBodies}
    \cup {LetStar(bs, body) : bs \in BindingLists, body \in LetBodies}
\* the let alone, inside an outer let of x, or inside a condition-case
\* whose value is dropped before foo is read
LetPrograms ==
    LetForms
    \cup {Let(<<Bind("x", IntObj(5))>>, <<f, Sym("x")>>) : f \in LetForms}
    \cup {Progn(<<CondCase(NIL, f, <<ErrorHandler(<<Handled>>)>>), Sym("foo")>>) : f \in LetForms}

\* closures called with funcall; reader is (function (lambda () foo))
Reader == Lambda(<<>>, <<Sym("foo")>>)
CallForms(v) ==
    [early |-> Let(<<Bind("f", Reader), Bind("foo", v)>>, <<Funcall(Sym("f"), <<>>)>>),
     early_serial |-> LetStar(<<Bind("f", Reader), Bind("foo", v)>>, <<Funcall(Sym("f"), <<>>)>>),
     inline |-> Let(<<Bind("foo", v)>>, <<Funcall(Reader, <<>>)>>),
     outer |-> Let(<<Bind("f", Reader)>>,
                   <<Let(<<Bind("foo", v)>>, <<Funcall(Sym("f"), <<>>)>>)>>),
     nested |-> Let(<<Bind("g", Reader),
                      Bind("f", Lambda(<<Sym("h")>>, <<Funcall(Sym("h"), <<>>)>>))>>,
                    <<Let(<<Bind("foo", v)>>, <<Funcall(Sym("f"), <<Sym("g")>>)>>)>>),
     param |-> Let(<<Bind("foo", v)>>,
                   <<Funcall(Lambda(<<Sym("foo")>>, <<Sym("foo")>>), <<IntObj(9)>>)>>),
     setq_param |-> Funcall(Lambda(<<Sym("foo")>>, <<Setq("foo", v), Sym("foo")>>),
                            <<IntObj(9)>>),
     setq_captured |-> Let(<<Bind("x", v)>>,
                           <<Funcall(Lambda(<<>>, <<Setq("x", IntObj(9)), Sym("x")>>), <<>>),
                             Sym("x")>>)]
\* the call forms in which a function called from the body of a let of foo
\* reads foo as a free variable
FreeReaders == {"early", "early_serial", "inline", "outer", "nested"}
CallKinds == FreeReaders \cup {"param", "setq_param", "setq_captured"}
CallPrograms == {CallForms(v)[kind] : v \in Ints, kind \in CallKinds}

\* defvar and defconst at top level, with and without a value form, and in
\* the body of a let of a variable of the same or of another name
DefvarForms ==
    {Call(d, <<Sym(s)>>) : d \in {"defvar", "defconst"}, s \in {"foo", "x"}}
    \cup {Call(d, <<Sym(s), v>>) : d \in {"defvar", "defconst"}, s \in {"foo", "x"},
                                   v \in Ints \cup {Setq("y", IntObj(9))}}
DefvarPrograms ==
    DefvarForms
    \cup {Let(<<Bind(s, i)>>, <<f, Sym("x")>>) : s \in {"x", "y"}, i \in Ints, f \in DefvarForms}

Quote(o) == Call("quote", <<o>>)
Setter == Lambda(<<Sym("y")>>, <<Setq("x", Sym("y"))>>)
Getter == Lambda(<<>>, <<Sym("x")>>)
\* two closures made in one let scope, one assigning the captured variable
\* and one reading it, kept in global variables or in function cells
ClosureForms(v) ==
    [shared |-> Progn(<<Let(<<Bind("x", v)>>, <<Setq("s", Setter), Setq("g", Getter)>>),
                        Funcall(Sym("s"), <<IntObj(9)>>),
                        Funcall(Sym("g"), <<>>)>>),
     shared_inner |-> Let(<<Bind("x", v)>>,
                          <<Let(<<Bind("s", Setter), Bind("g", Getter)>>,
                                <<Funcall(Sym("s"), <<IntObj(9)>>),
                                  Funcall(Sym("g"), <<>>)>>)>>),
     installed_getter |-> Progn(<<Setq("s", Let(<<Bind("x", v)>>,
                                                <<Call("defalias", <<Quote(Sym("f")), Getter>>),
                                                  Setter>>)),
                                  Funcall(Sym("s"), <<IntObj(9)>>),
                                  Call("f", <<>>)>>),
     installed_setter |-> Progn(<<Setq("g", Let(<<Bind("x", v)>>,
                                                <<Call("defalias", <<Quote(Sym("f")), Setter>>),
                                                  Getter>>)),
                                  Call("f", <<IntObj(9)>>),
                                  Funcall(Sym("g"), <<>>)>>)]
ClosureKinds == {"shared", "shared_inner", "installed_getter", "installed_setter"}
\* argument lists with required, optional and rest names, each called with
\* zero to three arguments; the body assigns w and returns its last name
ArgSpecs ==
    {<<>>, <<Sym("x")>>, <<Sym("x"), Sym("y")>>,
     <<Sym("x"), Sym("&optional"), Sym("y")>>,
     <<Sym("&optional"), Sym("x"), Sym("y")>>,
     <<Sym("x"), Sym("&optional"), Sym("y"), Sym("&rest"), Sym("z")>>,
     <<Sym("x"), Sym("&rest"), Sym("z")>>,
     <<Sym("&rest"), Sym("z")>>}
Supplied == <<IntObj(1), IntObj(2), IntObj(9)>>
ArityBody(names) ==
    IF names = <<>> THEN <<Setq("w", IntObj(9))>>
    ELSE <<Setq("w", IntObj(9)), names[Len(names)]>>
ArityPrograms ==
    {Funcall(Lambda(names, ArityBody(names)), SubSeq(Supplied, 1, n)) :
        names \in ArgSpecs, n \in 0..3}
    \cup {CondCase(NIL, Funcall(Lambda(names, ArityBody(names)), SubSeq(Supplied, 1, n)),
                    <<ErrorHandler(<<Sym("w")>>)>>) :
            names \in ArgSpecs, n \in 0..3}

\* the identity function as a lambda form
Identity == Lambda(<<Sym("x")>>, <<Sym("x")>>)
\* handler lists of condition-case: matching handlers with bodies of several
\* forms, of no form and of a dotted tail, nil handlers, and handlers of
\* invalid shape before a valid one
MatchingLists ==
    {<<ErrorHandler(<<IntObj(7)>>)>>,
     <<ErrorHandler(<<IntObj(7), IntObj(9), IntObj(11)>>)>>,
     <<ErrorHandler(<<>>)>>,
     <<Dot(Sym("error"), IntObj(7))>>,
     <<List(<<List(<<Sym("debug"), Sym("error")>>), IntObj(7)>>), ErrorHandler(<<IntObj(9)>>)>>,
     <<NIL, ErrorHandler(<<IntObj(7), IntObj(11)>>), ErrorHandler(<<IntObj(9)>>)>>,
     <<ErrorHandler(<<IntObj(7)>>), IntObj(5)>>,
     <<ErrorHandler(<<Sym("e")>>), ErrorHandler(<<IntObj(9)>>)>>,
     <<ErrorHandler(<<Call("function", <<Call("lambda", <<>>)>>)>>)>>}
UnmatchedLists == {<<>>, <<NIL>>, <<NIL, NIL>>}
InvalidLists ==
    {<<IntObj(5), ErrorHandler(<<IntObj(7)>>)>>,
     <<NIL, IntObj(5), ErrorHandler(<<IntObj(7)>>)>>,
     <<List(<<Sym("foo"), IntObj(9)>>), ErrorHandler(<<IntObj(7)>>)>>,
     <<List(<<List(<<Sym("foo")>>), IntObj(9)>>), ErrorHandler(<<IntObj(7)>>)>>,
     <<List(<<NIL, IntObj(9)>>), ErrorHandler(<<IntObj(7)>>)>>,
     <<Sym("error"), ErrorHandler(<<IntObj(7)>>)>>}
HandlerLists == MatchingLists \cup UnmatchedLists \cup InvalidLists
\* a failing body form: (if), a void variable, a call with too few arguments
FailingForms == {Fail, Sym("void"), Funcall(Identity, <<>>)}
HandlerPrograms ==
    {CondCase(var, body, hs) :
        var \in {NIL, Sym("e")}, body \in FailingForms, hs \in HandlerLists}
    \cup {Let(<<Bind("x", v)>>, <<CondCase(var, Fail, hs), Sym("x")>>) :
            v \in Ints, var \in {NIL, Sym("e")}, hs \in HandlerLists}

\* catch and throw whose tag and value forms are variables and quoted
\* symbols, not only integers
TagPrograms ==
    {Let(<<Bind("x", v)>>, <<Call("catch", <<Sym("x"), Throw(v, IntObj(9))>>)>>) : v \in Ints}
    \cup {Let(<<Bind("x", v)>>, <<Call("catch", <<v, Throw(Sym("x"), IntObj(9))>>)>>) :
            v \in Ints}
    \cup {Let(<<Bind("x", v)>>, <<Call("catch", <<IntObj(1), Throw(IntObj(1), Sym("x"))>>)>>) :
            v \in Ints}
    \cup {Call("catch", <<t, Throw(t, v)>>) :
            t \in {Sym("x"), Sym("foo"), Quote(Sym("a"))}, v \in Ints \cup {Sym("foo")}}
    \cup {Call("catch", <<Quote(Sym("a")), Throw(Sym("a"), v)>>) : v \in Ints}

\* loops that end: the condition moves b, c and d one place towards a and
\* yields a, or copies y to x; the body assigns the variables read next
While(c, body) == Call("while", <<c>> \o body)
Shift ==
    Progn(<<Call("setq", <<Sym("a"), Sym("b"), Sym("b"), Sym("c"), Sym("c"), Sym("d"),
                           Sym("d"), NIL>>),
            Sym("a")>>)
WhilePrograms ==
    {Let(<<Bind("a", NIL), Bind("b", v), Bind("c", IntObj(9)), Bind("d", w), Bind("n", NIL)>>,
         <<While(Shift, <<Setq("n", Sym("a"))>>), Sym("n")>>) :
        v \in Ints, w \in Ints \cup {NIL}}
    \cup {Let(<<Bind("x", NIL), Bind("y", v), Bind("z", w)>>,
              <<While(Setq("x", Sym("y")), <<Setq("y", Sym("z")), Setq("z", NIL)>>),
                Sym("x")>>) :
            v \in Ints \cup {NIL}, w \in Ints \cup {NIL}}
    \cup {While(v, <<Fail>>) : v \in Ints \cup {NIL}}

\* function applied to lambda forms under no, one and two lexical bindings and
\* in the body of a called closure, and to arguments that are not lambda forms
FunctionForms(v) ==
    {Identity,
     Call("function", <<Call("lambda", <<>>)>>),
     Let(<<Bind("y", v)>>, <<Identity>>),
     Let(<<Bind("y", v), Bind("x", IntObj(9))>>, <<Getter>>),
     Let(<<Bind("x", v)>>, <<Let(<<Bind("y", IntObj(9))>>, <<Setter>>)>>),
     Let(<<Bind("y", v)>>, <<Funcall(Lambda(<<Sym("x")>>, <<Getter>>), <<IntObj(9)>>)>>),
     Call("function", <<Sym("foo")>>),
     Call("function", <<v>>),
     Call("function", <<Call("if", <<>>)>>),
     Let(<<Bind("x", v)>>, <<Call("function", <<Setq("x", IntObj(9))>>), Sym("x")>>)}
\* a closure whose body leaves a binding of x behind, called under a let of
\* y and followed by a read of x or y; a closure that takes x, called where
\* x is bound, with and without capturing that binding
LeakingCalls(v) ==
    {Let(<<Bind("y", v)>>,
         <<Funcall(Lambda(<<>>, <<CondCase(NIL, Let(<<Bind("x", IntObj(9))>>, <<Fail>>),
                                           <<ErrorHandler(<<IntObj(7)>>)>>)>>), <<>>),
           Sym(s)>>) : s \in {"x", "y"}}
    \cup {Let(<<Bind("f", Lambda(<<Sym("x")>>, <<Sym(s)>>))>>,
              <<Let(<<Bind("x", v), Bind("y", v)>>, <<Funcall(Sym("f"), <<IntObj(9)>>)>>)>>) :
            s \in {"x", "y"}}
\* calls made while a value is held by a frame only: the caller's stack
\* during a call inside a call, an evaluated argument, an evaluated
\* initializer and the value prog1 returns while the next form makes a call
Constantly == Lambda(<<>>, <<IntObj(2)>>)
RootedCalls(v) ==
    {Let(<<Bind("f", Lambda(<<>>, <<Funcall(Constantly, <<>>)>>))>>,
         <<Let(<<Bind("y", v)>>, <<Funcall(Sym("f"), <<>>), Sym("y")>>)>>),
     Funcall(Let(<<Bind("x", v)>>, <<Lambda(<<Sym("a")>>, <<Sym("x")>>)>>),
             <<Funcall(Constantly, <<>>)>>),
     Let(<<Bind("g", Let(<<Bind("x", v)>>, <<Getter>>)),
           Bind("h", Funcall(Constantly, <<>>))>>,
         <<Funcall(Sym("g"), <<>>)>>),
     Funcall(Call("prog1", <<Let(<<Bind("x", v)>>, <<Getter>>),
                            Funcall(Constantly, <<>>)>>), <<>>)}
ClosurePrograms ==
    {ClosureForms(v)[kind] : v \in Ints, kind \in ClosureKinds}
    \cup UNION {FunctionForms(v) : v \in Ints}
    \cup UNION {LeakingCalls(v) : v \in Ints}
    \cup UNION {RootedCalls(v) : v \in Ints}

\* a throw made in the body of a closure that is called inside a catch:
\* called once, through a second closure, through a function cell, with a
\* condition-case or a catch of another tag on the way out, with the catch
\* inside the calling closure, with the thrown value named by a parameter,
\* and with no catch at all
Thrower(t, v) == Lambda(<<>>, <<Throw(t, v)>>)
OtherTag == IntObj(5)
ThrowCalls(t, v) ==
    {Catch(t, Funcall(Thrower(t, v), <<>>)),
     Catch(t, Funcall(Lambda(<<>>, <<Funcall(Thrower(t, v), <<>>), Post>>), <<>>)),
     Catch(t, CondCase(NIL, Funcall(Thrower(t, v), <<>>), <<ErrorHandler(<<Handled>>)>>)),
     Catch(t, Funcall(Lambda(<<>>, <<CondCase(Sym("e"), Funcall(Thrower(t, v), <<>>),
                                               <<ErrorHandler(<<Handled>>)>>)>>), <<>>)),
     Catch(t, Funcall(Lambda(<<>>, <<Catch(OtherTag, Funcall(Thrower(t, v), <<>>))>>), <<>>)),
     Funcall(Lambda(<<>>, <<Catch(t, Funcall(Thrower(t, v), <<>>))>>), <<>>),
     Progn(<<Call("defalias", <<Quote(Sym("th")), Thrower(t, v)>>),
             Catch(t, CondCase(NIL, Call("th", <<>>), <<ErrorHandler(<<Handled>>)>>))>>),
     Catch(t, Funcall(Lambda(<<Sym("x")>>, <<Throw(t, Sym("x"))>>), <<v>>)),
     CondCase(NIL, Funcall(Thrower(t, v), <<>>), <<ErrorHandler(<<Handled>>)>>)}
ThrowCallPrograms == UNION {ThrowCalls(t, v) : t \in Ints, v \in ThrowValues}

\* calls whose argument forms assign and read x, so that the order of their
\* evaluation shows in the arguments; an argument form that fails or throws
\* between two assignments; calls as arguments of calls; a call through a
\* function cell; a symbol with no function
Collector == Lambda(<<Sym("&rest"), Sym("z")>>, <<Sym("z")>>)
ArgumentCalls(v) ==
    {Funcall(Collector, <<Setq("x", v), Sym("x"), Setq("x", IntObj(9)), Sym("x")>>),
     Funcall(Collector, <<Setq("x", v), Fail, Setq("x", IntObj(9))>>),
     Funcall(Sym("void"), <<Setq("x", v)>>),
     Funcall(Collector, <<Setq("x", v), Sym("void")>>),
     Catch(IntObj(1), Funcall(Collector, <<Setq("x", v), Throw(IntObj(1), IntObj(9)),
                                           Setq("x", IntObj(9))>>)),
     Funcall(Collector, <<Funcall(Identity, <<Setq("x", v)>>), Funcall(Identity, <<Sym("x")>>)>>),
     Progn(<<Call("defalias", <<Quote(Sym("af")), Collector>>),
             Call("af", <<Setq("x", v), Sym("x"), Setq("x", IntObj(9))>>)>>),
     Progn(<<Call("defalias", <<Quote(Sym("af")), Collector>>),
             Call("af", <<Setq("x", v), Fail, Setq("x", IntObj(9))>>)>>),
     Progn(<<CondCase(NIL, Funcall(Collector, <<Setq("x", v), Fail, Setq("x", IntObj(9))>>),
                      <<ErrorHandler(<<Handled>>)>>),
             Funcall(Collector, <<Sym("x"), Setq("x", IntObj(9)), Sym("x")>>)>>),
     Call("nofn", <<Setq("x", v)>>)}
ArgumentPrograms == UNION {ArgumentCalls(v) : v \in Ints}

\* setq of several pairs whose later value forms read the variables assigned
\* before them, on global and on lexical variables; a setq inside a value
\* form; an odd number of forms; a number in variable position; a value form
\* that fails after a pair has been assigned
SetqForms(v) ==
    {Call("setq", <<Sym("foo"), v, Sym("x"), Sym("foo")>>),
     Call("setq", <<Sym("x"), v, Sym("y"), Sym("x"), Sym("x"), IntObj(9)>>),
     Let(<<Bind("x", IntObj(1)), Bind("y", IntObj(2))>>,
         <<Call("setq", <<Sym("x"), v, Sym("y"), Sym("x"), Sym("x"), IntObj(9)>>), Sym("y")>>),
     Call("setq", <<Sym("x"), Call("setq", <<Sym("y"), v, Sym("foo"), Sym("y")>>),
                    Sym("y"), IntObj(9)>>),
     Call("setq", <<Sym("x"), v, Sym("y")>>),
     Call("setq", <<Sym("x")>>),
     Call("setq", <<>>),
     Call("setq", <<IntObj(5), v>>),
     Call("setq", <<Sym("x"), v, IntObj(5), IntObj(9)>>),
     Call("setq", <<Sym("x"), v, IntObj(5)>>),
     Call("setq", <<Sym("x"), v, Sym("y"), Fail, Sym("x"), IntObj(9)>>),
     Catch(IntObj(1), Call("setq", <<Sym("x"), v, Sym("y"), Throw(IntObj(1), IntObj(9)),
                                     Sym("x"), IntObj(9)>>))}
SetqPrograms == UNION {SetqForms(v) : v \in Ints}

\* and and or of no, one and several forms; forms that assign x before and
\* after the deciding form; a failing form after and before the deciding
\* form; an and inside an or; a throw from inside an and
And(body) == Call("and", body)
Or(body) == Call("or", body)
JunctionForms(v) ==
    {And(<<>>), And(<<v>>), And(<<NIL>>), And(<<Sym("x")>>),
     And(<<Setq("x", v), Setq("x", IntObj(9))>>),
     And(<<Setq("x", v), NIL, Setq("x", IntObj(9))>>),
     And(<<NIL, Fail>>), And(<<v, Fail, Setq("x", IntObj(9))>>),
     Or(<<>>), Or(<<v>>), Or(<<NIL>>), Or(<<NIL, NIL>>), Or(<<Sym("x")>>),
     Or(<<NIL, Setq("x", v), Setq("x", IntObj(9))>>),
     Or(<<v, Fail>>), Or(<<NIL, Fail, Setq("x", IntObj(9))>>),
     Or(<<And(<<Setq("x", v), NIL, Setq("x", IntObj(9))>>), Sym("x"), Setq("x", IntObj(9))>>),
     And(<<Or(<<NIL, v>>), Or(<<NIL, NIL>>), Setq("x", IntObj(9))>>),
     Catch(IntObj(1), And(<<v, Throw(IntObj(1), IntObj(9)), Setq("x", IntObj(9))>>))}
JunctionPrograms == UNION {JunctionForms(v) : v \in Ints}

\* cond of no clause, of empty clauses, of clauses with and without body
\* forms; tests and bodies that assign x in the clause taken and in the
\* clauses before and after it; a test and a body that fail
Cond(clauses) == Call("cond", clauses)
CondForms(v) ==
    {Cond(<<>>), Cond(<<NIL>>), Cond(<<List(<<v>>)>>), Cond(<<List(<<v, IntObj(9)>>)>>),
     Cond(<<List(<<NIL, IntObj(1)>>), List(<<v, IntObj(9)>>)>>),
     Cond(<<List(<<NIL, IntObj(1)>>), List(<<v, IntObj(9)>>), List(<<IntObj(4), IntObj(5)>>)>>),
     Cond(<<List(<<NIL, Setq("x", IntObj(9))>>), NIL,
            List(<<Setq("x", v), IntObj(5), Sym("x")>>),
            List(<<Setq("x", IntObj(9)), IntObj(1)>>)>>),
     Cond(<<List(<<NIL>>), List(<<Setq("x", v)>>), List(<<Setq("x", IntObj(9))>>)>>),
     Cond(<<List(<<Setq("x", NIL), IntObj(1)>>), List(<<NIL, IntObj(1)>>)>>),
     Cond(<<List(<<v, Setq("x", v), Setq("foo", Sym("x"))>>), List(<<TRUE_, Setq("x", IntObj(9))>>)>>),
     Cond(<<List(<<NIL, IntObj(1)>>), List(<<Fail, IntObj(1)>>), List(<<Setq("x", v)>>)>>),
     Cond(<<List(<<v, Fail, Setq("x", IntObj(9))>>), List(<<Setq("x", IntObj(9))>>)>>),
     Cond(<<List(<<Cond(<<List(<<NIL, IntObj(1)>>)>>), Setq("x", IntObj(9))>>),
            List(<<Cond(<<List(<<v>>)>>), Quote(Sym("a"))>>)>>)}
CondPrograms == UNION {CondForms(v) : v \in Ints}

\* prog1 and prog2 of no, one, two and three forms; a first or second form
\* that reads x before a later form assigns x; forms that fail; a prog2
\* inside a prog1
Prog1(body) == Call("prog1", body)
Prog2(body) == Call("prog2", body)
ProgxForms(v) ==
    {Prog1(<<>>), Prog1(<<v>>), Prog1(<<v, IntObj(9)>>), Prog1(<<IntObj(1), v, IntObj(9)>>),
     Prog2(<<>>), Prog2(<<v>>), Prog2(<<IntObj(9), v>>), Prog2(<<IntObj(1), v, IntObj(9)>>),
     Progn(<<Setq("x", v), Prog1(<<Sym("x"), Setq("x", IntObj(9)), Sym("x")>>)>>),
     Progn(<<Setq("x", IntObj(9)), Prog2(<<Setq("x", v), Sym("x"), Setq("x", IntObj(9))>>)>>),
     Let(<<Bind("x", v)>>, <<Prog1(<<Sym("x"), Setq("x", IntObj(9))>>)>>),
     Prog2(<<Setq("x", v)>>),
     Prog1(<<v, Fail, Setq("x", IntObj(9))>>),
     Prog2(<<Setq("x", v), Fail>>),
     Prog1(<<Prog2(<<IntObj(1), v, IntObj(9)>>), Setq("x", IntObj(9))>>)}
ProgxPrograms == UNION {ProgxForms(v) : v \in Ints}

---------------------------------------------------------------------------
(* The object heap of src/src/core: cons cells (cons.rs) and vectors       *)
(* (object/vector.rs) placed in the arena.  An object is known by its      *)
(* address, its index in the sequence of the arena's objects; the arena    *)
(* does not move objects.  A value is an integer, nil, or a pointer to a   *)
(* cons or to a vector.                                                    *)

ConsPtr(a) == <<"consptr", a>>
VecPtr(a) == <<"vecptr", a>>
IsPtr(v) == v[1] \in {"consptr", "vecptr"}
Freed == [type |-> "free"]

\* Cons::mark_const
mark_const_toggle(cons) == [cons EXCEPT !.mutable = ~cons.mutable]

mark_const(cons) == [cons EXCEPT !.mutable = FALSE]

\* Cons::set_car: the cell after the call and the call's result
set_car(cons, new_car) ==
    IF cons.mutable
    THEN [cons |-> [cons EXCEPT !.car = new_car], res |-> "ok"]
    ELSE [cons |-> cons, res |-> "Attempt to call set-car on immutable cons cell"]

\* LispVec::new
LispVec_new(vec) == [type |-> "vec", gc |-> FALSE, is_const |-> FALSE, inner |-> vec]

\* LispVec::make_const
make_const(vec) == [vec EXCEPT !.is_const = TRUE]

\* LispVec::try_mut followed by MutObjCell::set on cell i of the view; i = 0
\* asks for the view and sets nothing
try_mut_set(vec, i, value) ==
    IF vec.is_const
    THEN [vec |-> vec, res |-> "Attempt to mutate constant Vector"]
    ELSE [vec |-> IF i = 0 THEN vec ELSE [vec EXCEPT !.inner[i] = value], res |-> "ok"]

\* the object a pointer names
Deref(objs, v) == objs[v[2]]

RECURSIVE eq_obj(_, _, _)
\* PartialEq of Cons
Cons_eq_identity(objs, a, b) == a = b

Cons_eq(objs, a, b) ==
    /\ eq_obj(objs, objs[a].car, objs[b].car)
    /\ eq_obj(objs, objs[a].cdr, objs[b].cdr)

\* PartialEq of LispVec: equality of the two slices of cells
LispVec_eq(objs, a, b) ==
    /\ Len(objs[a].inner) = Len(objs[b].inner)
    /\ \A i \in DOMAIN objs[a].inner : eq_obj(objs, objs[a].inner[i], objs[b].inner[i])

\* equality of two values: of the same variant, and equal as that variant
eq_obj(objs, x, y) ==
    IF x[1] = "consptr" /\ y[1] = "consptr" THEN Cons_eq(objs, x[2], y[2])
    ELSE IF x[1] = "vecptr" /\ y[1] = "vecptr" THEN LispVec_eq(objs, x[2], y[2])
    ELSE x = y

\* is_markable: the value is a pointer into the arena
is_markable(v) == IsPtr(v)

\* Trace of Cons: the cdr and then the car go on the stack, the cell is marked
trace_cons_cdr_only(objs, a, stack) ==
    [objs |-> [objs EXCEPT ![a].marked = TRUE],
     stack |-> stack \o (IF is_markable(objs[a].cdr) THEN <<objs[a].cdr>> ELSE <<>>)]

trace_cons(objs, a, stack) ==
    [objs |-> [objs EXCEPT ![a].marked = TRUE],
     stack |-> stack \o (IF is_markable(objs[a].cdr) THEN <<objs[a].cdr>> ELSE <<>>)
                     \o (IF is_markable(objs[a].car) THEN <<objs[a].car>> ELSE <<>>)]

\* Trace of LispVec: the vector is marked, its markable elements go on the stack
trace_vec(objs, a, stack) ==
    [objs |-> [objs EXCEPT ![a].gc = TRUE],
     stack |-> stack \o SelectSeq(objs[a].inner, is_markable)]

is_marked(obj) == IF obj.type = "cons" THEN obj.marked ELSE obj.gc

\* the mark phase: the stack starts with the roots; the top of the stack is
\* taken off and, unless it is marked already, traced
RECURSIVE mark_loop(_, _)
mark_traced(t) == mark_loop(t.objs, t.stack)
mark_loop(objs, stack) ==
    IF stack = <<>> THEN objs
    ELSE IF is_marked(Deref(objs, stack[Len(stack)]))
         THEN mark_loop(objs, SubSeq(stack, 1, Len(stack) - 1))
    ELSE IF stack[Len(stack)][1] = "consptr"
         THEN mark_traced(trace_cons(objs, stack[Len(stack)][2],
                                     SubSeq(stack, 1, Len(stack) - 1)))
    ELSE mark_traced(trace_vec(objs, stack[Len(stack)][2],
                               SubSeq(stack, 1, Len(stack) - 1)))

\* the sweep: an object without the mark is dropped, the mark of the others
\* is cleared
sweep(objs) ==
    [a \in DOMAIN objs |->
        IF objs[a].type = "free" \/ ~is_marked(objs[a]) THEN Freed
        ELSE IF objs[a].type = "cons" THEN [objs[a] EXCEPT !.marked = FALSE]
        ELSE [objs[a] EXCEPT !.gc = FALSE]]

\* the pointer to the object at an address
PtrTo(objs, a) == IF objs[a].type = "cons" THEN ConsPtr(a) ELSE VecPtr(a)
Live(objs) == {a \in DOMAIN objs : objs[a].type # "free"}

SetToSeq(S) ==
    LET RECURSIVE seq(_)
        seq(T) == IF T = {} THEN <<>>
                  ELSE LET x == CHOOSE y \in T : TRUE IN <<x>> \o seq(T \ {x})
    IN seq(S)

\* Arena::garbage_collect: the objects after the mark phase, and after the sweep
collected(marked) == [marked |-> marked, swept |-> sweep(marked)]
garbage_collect(objs, rs) ==
    collected(mark_loop(objs, SetToSeq({PtrTo(objs, a) : a \in rs})))

---------------------------------------------------------------------------
(* The state machine: every action is one call of the top-level eval on    *)
(* the Environment and arena left by the calls before it                   *)

Init ==
    /\ env = Environment_default
    /\ heap = <<>>
    /\ functions = [x \in {"funcall", "defalias"} |-> Subr(x)]
    /\ form = NIL
    /\ result = Ok(NIL)
    /\ log = <<>>
    /\ phase = "setup"
    /\ declared = {}
    /\ objects = <<>>
    /\ frozen = {}
    /\ operation = [op |-> "none", obj |-> 0, arg |-> NIL, res |-> "ok", before |-> Freed]

\* the state after an evaluation that came out as o
Commit(f, next, o) ==
    /\ env' = o.m.env
    /\ heap' = o.m.heap
    /\ functions' = o.m.fns
    /\ form' = f
    /\ result' = o.r
    /\ log' = o.m.log
    /\ phase' = next
    \* the symbols a defvar or defconst has named so far
    /\ declared' = declared \cup {o.m.log[j].name[2] :
                                    j \in {i \in DOMAIN o.m.log : o.m.log[i].k = "defvar"}}
    /\ UNCHANGED <<objects, operation, frozen>>

Step(f, next) == Commit(f, next, eval(f, env, heap, functions))

\* (defvar foo V) at top level: foo becomes a special variable
EvalDefvar ==
    /\ phase = "setup"
    /\ ~HasVar(env, "foo")
    /\ \E v \in Ints : Step(Defvar("foo", v), "setup")

\* (setq foo V) at top level: foo gets a global value without a declaration
EvalSetq ==
    /\ phase = "setup"
    /\ ~HasVar(env, "foo")
    /\ \E v \in Ints : Step(Setq("foo", v), "setup")

EvalNest ==
    /\ phase = "setup"
    /\ \E f \in NestPrograms : Step(f, "main")

EvalLet ==
    /\ phase = "setup"
    /\ \E f \in LetPrograms : Step(f, "main")

EvalCall ==
    /\ phase = "setup"
    /\ \E f \in CallPrograms : Step(f, "main")

EvalDefvarForm ==
    /\ phase = "setup"
    /\ \E f \in DefvarPrograms : Step(f, "main")

EvalClosure ==
    /\ phase = "setup"
    /\ \E f \in ClosurePrograms : Step(f, "main")

EvalArity ==
    /\ phase = "setup"
    /\ \E f \in ArityPrograms : Step(f, "main")

EvalHandlers ==
    /\ phase = "setup"
    /\ \E f \in HandlerPrograms : Step(f, "main")

EvalTags ==
    /\ phase = "setup"
    /\ \E f \in TagPrograms : Step(f, "main")

EvalWhile ==
    /\ phase = "setup"
    /\ \E f \in WhilePrograms : Step(f, "main")

EvalThrowCall ==
    /\ phase = "setup"
    /\ \E f \in ThrowCallPrograms : Step(f, "main")

EvalArguments ==
    /\ phase = "setup"
    /\ \E f \in ArgumentPrograms : Step(f, "main")

EvalSetqPairs ==
    /\ phase = "setup"
    /\ \E f \in SetqPrograms : Step(f, "main")

EvalJunction ==
    /\ phase = "setup"
    /\ \E f \in JunctionPrograms : Step(f, "main")

EvalCond ==
    /\ phase = "setup"
    /\ \E f \in CondPrograms : Step(f, "main")

EvalProgx ==
    /\ phase = "setup"
    /\ \E f \in ProgxPrograms : Step(f, "main")

\* a symbol evaluated at top level after the main form
EvalSymbol ==
    /\ phase = "main"
    /\ \E s \in {"foo", "x", ":k"} : Step(Sym(s), "done")

Next ==
    \/ EvalDefvar \/ EvalSetq \/ EvalNest \/ EvalLet \/ EvalCall \/ EvalDefvarForm \/ EvalClosure
    \/ EvalArity \/ EvalHandlers \/ EvalTags \/ EvalWhile \/ EvalThrowCall
    \/ EvalArguments \/ EvalSetqPairs \/ EvalJunction
    \/ EvalCond \/ EvalProgx \/ EvalSymbol

Spec == Init /\ [][Next]_vars

---------------------------------------------------------------------------
(* The state machine of the object heap: every action is one operation on  *)
(* the arena's objects; operation records the one that led to the state    *)

MaxObjects == 2
MaxLen == 1

Atoms == {NIL, IntObj(1)}
Values(objs) == Atoms \cup {PtrTo(objs, a) : a \in Live(objs)}
Vecs(vals) == UNION {[1..n -> vals] : n \in 0..MaxLen}
NoOperation == [op |-> "none", obj |-> 0, arg |-> NIL, res |-> "ok", before |-> Freed]

\* the interpreter at rest, and an arena with the given objects
ArenaOf(objs, consts) ==
    /\ env = Environment_default
    /\ heap = <<>>
    /\ functions = [x \in {"funcall", "defalias"} |-> Subr(x)]
    /\ form = NIL
    /\ result = Ok(NIL)
    /\ log = <<>>
    /\ phase = "objects"
    /\ declared = {}
    /\ objects = objs
    /\ frozen = consts
    /\ operation = NoOperation

HeapInit == ArenaOf(<<>>, {})

\* Arena::add of a new cons
AllocCons ==
    /\ phase = "objects"
    /\ Len(objects) < MaxObjects
    /\ \E car \in Values(objects), cdr \in Values(objects) :
         /\ objects' = Append(objects, Cons_new(car, cdr))
         /\ operation' = [op |-> "cons", obj |-> Len(objects) + 1, arg |-> <<car, cdr>>,
                          res |-> "ok", before |-> Freed]
    /\ UNCHANGED <<interpreter, frozen>>

\* Arena::add of a new vector
AllocVec ==
    /\ phase = "objects"
    /\ Len(objects) < MaxObjects
    /\ \E vec \in Vecs(Values(objects)) :
         /\ objects' = Append(objects, LispVec_new(vec))
         /\ operation' = [op |-> "vec", obj |-> Len(objects) + 1, arg |-> vec,
                          res |-> "ok", before |-> Freed]
    /\ UNCHANGED <<interpreter, frozen>>

SetCar ==
    /\ phase = "objects"
    /\ \E a \in Live(objects), v \in Values(objects) :
         /\ objects[a].type = "cons"
         /\ objects' = [objects EXCEPT ![a] = set_car(objects[a], v).cons]
         /\ operation' = [op |-> "set_car", obj |-> a, arg |-> v,
                          res |-> set_car(objects[a], v).res, before |-> objects[a]]
    /\ UNCHANGED <<interpreter, frozen>>

SetCdr ==
    /\ phase = "objects"
    /\ \E a \in Live(objects), v \in Values(objects) :
         /\ objects[a].type = "cons"
         /\ objects' = [objects EXCEPT ![a] = set_cdr(objects[a], v).cons]
         /\ operation' = [op |-> "set_cdr", obj |-> a, arg |-> v,
                          res |-> set_cdr(objects[a], v).res, before |-> objects[a]]
    /\ UNCHANGED <<interpreter, frozen>>

MarkConst ==
    /\ phase = "objects"
    /\ \E a \in Live(objects) :
         /\ objects[a].type = "cons"
         /\ objects' = [objects EXCEPT ![a] = mark_const(objects[a])]
         /\ frozen' = frozen \cup {a}
         /\ operation' = [op |-> "mark_const", obj |-> a, arg |-> NIL,
                          res |-> "ok", before |-> objects[a]]
    /\ UNCHANGED interpreter

MakeConst ==
    /\ phase = "objects"
    /\ \E a \in Live(objects) :
         /\ objects[a].type = "vec"
         /\ objects' = [objects EXCEPT ![a] = make_const(objects[a])]
         /\ frozen' = frozen \cup {a}
         /\ operation' = [op |-> "make_const", obj |-> a, arg |-> NIL,
                          res |-> "ok", before |-> objects[a]]
    /\ UNCHANGED interpreter

TryMut ==
    /\ phase = "objects"
    /\ \E a \in Live(objects), v \in Values(objects) :
         /\ objects[a].type = "vec"
         /\ \E i \in 0..Len(objects[a].inner) :
              /\ objects' = [objects EXCEPT ![a] = try_mut_set(objects[a], i, v).vec]
              /\ operation' = [op |-> "try_mut", obj |-> a, arg |-> <<i, v>>,
                               res |-> try_mut_set(objects[a], i, v).res,
                               before |-> objects[a]]
    /\ UNCHANGED <<interpreter, frozen>>

HeapNext ==
    \/ AllocCons \/ AllocVec \/ SetCar \/ SetCdr \/ MarkConst \/ MakeConst \/ TryMut

HeapSpec == HeapInit /\ [][HeapNext]_vars


---------------------------------------------------------------------------
(* Reading the history of the last top-level eval                          *)

Events(kind) == {i \in DOMAIN log : log[i].k = kind}
IsSignal(r) == ~r.ok /\ r.error = None
IsError(r) == ~r.ok /\ r.error # None
InStack(tag, stack) == \E i \in DOMAIN stack : stack[i] = tag
MaxOf(S) == IF S = {} THEN 0 ELSE CHOOSE i \in S : \A j \in S : j <= i
\* the throw in flight at position j: the last throw before j that signalled
LastThrow(j) == MaxOf({i \in Events("throw") : i < j /\ IsSignal(log[i].res)})
\* the position on the stack of the innermost catch of the tag
InnermostMatch(stack, tag) == MaxOf({i \in DOMAIN stack : stack[i] = tag})
\* the steps that leave a form; none of them evaluates anything
Unwinding ==
    {"catch", "cc", "cc_body", "let", "call_return", "arg_done", "setq_exit", "sub_done", "leave"}

---------------------------------------------------------------------------
(* Claims                                                                  *)

\* C1: a throw to tag T is intercepted by the innermost active catch whose
\* tag equals T and by no other: whenever the body of a catch fails with a
\* throw signal, nothing has been evaluated since the throw; a catch whose
\* tag differs hands the signal on unchanged, a catch whose tag equals T
\* returns the thrown value and is the innermost catch of T that was active
\* at the throw.
C1_ThrowReachesInnermostMatchingCatch ==
    \A j \in Events("catch") :
        IsSignal(log[j].body) =>
            LET i == LastThrow(j)
            IN /\ i # 0
               /\ \A n \in (i + 1)..(j - 1) : log[n].k \in Unwinding
               /\ IF log[j].tag = log[i].tag
                  THEN /\ log[j].res = Ok(log[i].value)
                       /\ log[j].depth = InnermostMatch(log[i].pre.env.catch_stack, log[i].tag)
                  ELSE log[j].res = log[j].body

\* C1 witness: a catch returned the value of a throw that passed a catch of
\* another tag on its way
C1_Witness ==
    \E j \in Events("catch") :
        /\ IsSignal(log[j].body)
        /\ log[j].res.ok
        /\ LastThrow(j) # 0
        /\ Len(log[LastThrow(j)].pre.env.catch_stack) > log[j].depth
        /\ log[j].res.val = log[LastThrow(j)].value

\* C2: a throw whose tag is on no active catch fails with an error that
\* carries a message and leaves the thrown slot as it was; a condition-case
\* with an error handler around it returns the handler's value, and a catch
\* of another tag around it fails.
C2_UnmatchedThrowIsOrdinaryError ==
    /\ \A i \in Events("throw") :
           ~InStack(log[i].tag, log[i].pre.env.catch_stack) =>
               /\ IsError(log[i].res)
               /\ log[i].post.env.thrown = log[i].pre.env.thrown
    /\ \A t \in Ints, v \in ThrowValues :
           /\ form = CondCase(NIL, Throw(t, v), <<ErrorHandler(<<Handled>>)>>)
                  => result = Ok(Handled)
           /\ \A u \in Ints \ {t} : form = Catch(u, Throw(t, v)) => IsError(result)

\* C2 witness: (condition-case nil (throw T V) (error 7)) was evaluated at top level
C2_Witness ==
    /\ \E t \in Ints, v \in ThrowValues :
           form = CondCase(NIL, Throw(t, v), <<ErrorHandler(<<Handled>>)>>)
    /\ \E i \in Events("throw") : log[i].post.env.thrown = <<NIL, NIL>>
    /\ result.ok

\* the condition-case steps whose body form is a throw to a tag no catch holds
UnmatchedThrowInCondCase ==
    {j \in Events("cc") :
        /\ log[j].bodyform[1] = "list"
        /\ log[j].bodyform[2][1] = Sym("throw")
        /\ Len(log[j].bodyform[2]) = 3
        /\ ~InStack(log[j].bodyform[2][2], log[j].pre.env.catch_stack)
        /\ log[j].handlers # <<>>
        /\ log[j].handlers[1] = ErrorHandler(<<Handled>>)}

\* C3 as stated: (condition-case VAR (throw T V) (error H...)) with no catch
\* for T active ends in failure and does not run the handler.
C3_Original ==
    \A j \in UnmatchedThrowInCondCase :
        /\ ~log[j].res.ok
        /\ \A n \in Events("cc_handler") : ~(log[j].mark < n /\ n < j)

\* C3 amended: (condition-case VAR (throw T V) (error H...)) with no catch
\* for T active runs its error handler and returns the handler's value: the
\* unmatched throw is an ordinary error.
C3_UnmatchedThrowIsHandled ==
    \A j \in UnmatchedThrowInCondCase :
        /\ log[j].res = Ok(Handled)
        /\ \E n \in Events("cc_handler") :
               /\ log[j].mark < n /\ n < j
               /\ IsError(log[n].error)

\* C3 witness: such a condition-case, inside a catch of another tag, returned
\* the value of its handler
C3_Witness ==
    \E j \in UnmatchedThrowInCondCase : log[j].res.ok /\ log[j].pre.env.catch_stack # <<>>

\* C4: a throw signal that reaches a condition-case from its body form
\* passes through: the condition-case fails with the same signal, evaluates
\* nothing and pushes no binding after the body form, and the next catch of
\* the thrown tag returns the thrown value, nothing being evaluated on the way.
C4_ThrowPassesThroughConditionCase ==
    \A j \in Events("cc") :
        IsSignal(log[j].body) =>
            LET thrown == log[j].post.env.thrown
            IN /\ log[j].res = log[j].body
               /\ j = log[j].mark + 1
               /\ log[j].post = log[j].after_body
               /\ \E c \in Events("catch") :
                      /\ c > j
                      /\ log[c].tag = thrown[1]
                      /\ log[c].res = Ok(thrown[2])
                      /\ \A n \in (j + 1)..(c - 1) :
                             /\ log[n].k \in Unwinding
                             /\ log[n].k = "catch" => log[n].tag # thrown[1]

\* C4 witness: a throw passed a condition-case that has an error handler and
\* the catch around it returned the thrown value
C4_Witness ==
    \E j \in Events("cc") :
        /\ IsSignal(log[j].body)
        /\ log[j].handlers # <<>>
        /\ \E c \in Events("catch") : c > j /\ log[c].res.ok /\ result = log[c].res

---------------------------------------------------------------------------
(* Reading the history of a let                                            *)

\* the special variables the let at j has rebound, by name
Specials(j) ==
    {log[j].dynamic_bindings[n][1][2] : n \in DOMAIN log[j].dynamic_bindings}
\* no special variable is rebound twice by the let at j
NamedOnce(j) ==
    \A a, b \in DOMAIN log[j].dynamic_bindings :
        log[j].dynamic_bindings[a][1] = log[j].dynamic_bindings[b][1] => a = b
\* the symbol has no lexical binding in the snapshot
Free(snap, sym) == \A q \in DOMAIN snap.bindings : snap.bindings[q][1] # sym
\* the most recent lexical binding of the symbol in a snapshot
Recent(snap, sym) == MaxOf({q \in DOMAIN snap.bindings : snap.bindings[q][1] = sym})

\* what the claims expect a read of the symbol to find in a snapshot
Lookup(snap, sym) ==
    IF ~Free(snap, sym) THEN Ok(snap.bindings[Recent(snap, sym)][2])
    ELSE IF sym[2] \in DOMAIN snap.env.vars THEN Ok(snap.env.vars[sym[2]])
    ELSE new_error("Void variable")
\* between positions a and b no assignment is made and no let starts its body
\* or is left
Quiet(a, b) == \A q \in (a + 1)..(b - 1) : log[q].k \notin {"var_set", "let_body", "let"}
\* position n is inside the body of a called function
InCall(n) ==
    Cardinality({c \in Events("call_closure") : c < n})
        > Cardinality({c \in Events("call_return") : c < n})

\* C5: when a let that rebinds special variables, each named at most once,
\* completes normally, the dynamic table holds for each of them the value it
\* had immediately before the let, and a read of it that follows finds that
\* value, whatever the body assigned.
C5_LetRestoresSpecialsOnNormalExit ==
    \A j \in Events("let") :
        (log[j].exit = "ok" /\ NamedOnce(j)) =>
            \A s \in Specials(j) :
                /\ log[j].post.env.vars[s] = log[j].pre.env.vars[s]
                /\ \A n \in Events("var_ref") :
                       (/\ n > j
                        /\ log[n].sym = Sym(s)
                        /\ Free(log[n].pre, Sym(s))
                        /\ Quiet(j, n))
                       => log[n].res = Ok(log[j].pre.env.vars[s])

\* C5 witness: the body of a let of a special variable assigned the variable
\* another value, the let completed, and a later read found the value from
\* before the let
C5_Witness ==
    \E j \in Events("let") :
        /\ log[j].exit = "ok"
        /\ NamedOnce(j)
        /\ \E s \in Specials(j) :
               /\ \E a \in Events("var_set") :
                      /\ log[j].body_start < a /\ a < j
                      /\ log[a].name = Sym(s)
                      /\ log[a].value # log[j].pre.env.vars[s]
                      /\ log[a].post.env.vars[s] = log[a].value
               /\ \E n \in Events("var_ref") :
                      /\ n > j
                      /\ log[n].sym = Sym(s)
                      /\ log[n].res = Ok(log[j].pre.env.vars[s])

\* C6 as stated: when a let that rebinds special variables, each named at
\* most once, is left by an error or a throw out of its body or of a later
\* initializer, the dynamic table holds for each of them the value it had
\* before the let, and a read of it in the forms evaluated afterwards finds
\* that value.
C6_LetRestoresSpecialsOnEveryExit ==
    \A j \in Events("let") :
        (log[j].exit # "ok" /\ NamedOnce(j)) =>
            \A s \in Specials(j) :
                /\ log[j].post.env.vars[s] = log[j].pre.env.vars[s]
                /\ \A n \in Events("var_ref") :
                       (/\ n > j
                        /\ log[n].sym = Sym(s)
                        /\ Free(log[n].pre, Sym(s))
                        /\ Quiet(j, n))
                       => log[n].res = Ok(log[j].pre.env.vars[s])

\* C6 witness: the body of a let of a special variable failed, a
\* condition-case around the let handled the error, and the variable was read
\* afterwards
C6_Witness ==
    \E j \in Events("let") :
        /\ log[j].exit = "body_err"
        /\ Specials(j) # {}
        /\ \E c \in Events("cc_handler") : c > j
        /\ \E n \in Events("var_ref") :
               n > j /\ log[n].sym[2] \in Specials(j) /\ log[n].res.ok

\* C7: a function called from the body of a let that rebinds a special
\* variable, when it reads the variable as a free variable, finds the let's
\* value; so do the closures of the call forms, one of them created before
\* the rebinding took effect, whose value is the value read.
C7_CalledFunctionSeesDynamicBinding ==
    /\ \A j \in Events("let") : \A s \in Specials(j) :
           \A n \in Events("var_ref") :
               (/\ log[j].body_start < n /\ n < j
                /\ log[n].sym = Sym(s)
                /\ InCall(n)
                /\ Free(log[n].pre, Sym(s))
                /\ Quiet(log[j].body_start, n))
               => log[n].res = Ok(log[j].bound.env.vars[s])
    /\ \A v \in Ints, kind \in FreeReaders :
           (form = CallForms(v)[kind] /\ HasVar(log[1].pre.env, "foo")) =>
               /\ result = Ok(v)
               /\ \E n \in Events("var_ref") :
                      /\ log[n].sym = Sym("foo")
                      /\ InCall(n)
                      /\ log[n].res = Ok(v)

\* C7 witness: a closure created outside the let of the special variable foo
\* was called from the body of the let and read the let's value, which is
\* not the value foo had before
C7_Witness ==
    \E v \in Ints :
        /\ form = CallForms(v)["outer"]
        /\ HasVar(log[1].pre.env, "foo")
        /\ GetVar(log[1].pre.env, "foo") # v
        /\ result = Ok(v)
        /\ \E n \in Events("var_ref") : log[n].sym = Sym("foo") /\ InCall(n)

\* the lets of two bindings whose first initializer is a number and whose
\* second initializer reads a variable
SiblingReads ==
    {j \in Events("let") :
        /\ Len(log[j].bindings[2]) = 2
        /\ log[j].bindings[2][1][2][2] \in Ints
        /\ IsSymbol(log[j].bindings[2][2][2][2])}
\* the reads made while the let at j evaluates its initializers
InitializerReads(j) ==
    {n \in Events("var_ref") : log[j].start < n /\ n <= log[j].body_start}

\* C8: the second initializer of a let reads its variable in the bindings
\* and the dynamic table that the let found, so it sees the outer value or
\* fails with void variable, never the first binding of the same let; the
\* second initializer of a let* that reads the variable of the first binding
\* sees the value of the first binding.
C8_LetParallelLetStarSerial ==
    \A j \in SiblingReads : \A n \in InitializerReads(j) :
        IF log[j].parallel
        THEN /\ log[n].pre.bindings = log[j].pre.bindings
             /\ log[n].pre.env = log[j].pre.env
             /\ log[n].res = Lookup(log[j].pre, log[n].sym)
        ELSE IF log[n].sym = log[j].bindings[2][1][2][1]
        THEN log[n].res = Ok(log[j].bindings[2][1][2][2])
        ELSE log[n].res = Lookup(log[j].pre, log[n].sym)

\* C8 witness: the second initializer of a let read the variable of the first
\* binding and found the value of an outer binding, which is not the value
\* of the first binding
C8_Witness ==
    \E j \in SiblingReads : \E n \in InitializerReads(j) :
        /\ log[j].parallel
        /\ log[n].sym = log[j].bindings[2][1][2][1]
        /\ log[n].res.ok
        /\ log[n].res.val # log[j].bindings[2][1][2][2]

\* C9: a reference to a variable (a symbol that is not a keyword) returns the
\* value of the most recently pushed lexical binding of the symbol, without
\* one the value of the dynamic table, without either a void-variable error;
\* in the body of a let a read finds the let's binding, and after a let that
\* shadowed an outer binding has completed a read finds the outer binding.
C9_VarRefLexicalThenDynamic ==
    /\ \A n \in Events("var_ref") :
           ~starts_with_colon(log[n].sym[2]) => log[n].res = Lookup(log[n].pre, log[n].sym)
    /\ \A j \in Events("let") : \A n \in Events("var_ref") :
           /\ (/\ log[j].body_start < n /\ n < j
               /\ log[n].pre.vars = log[j].bound.vars
               /\ ~Free(log[j].bound, log[n].sym)
               /\ Quiet(log[j].body_start, n))
              => log[n].res = Lookup(log[j].bound, log[n].sym)
           /\ (/\ n > j
               /\ log[j].exit = "ok"
               /\ ~Free(log[j].pre, log[n].sym)
               /\ Recent(log[j].bound, log[n].sym) > Len(log[j].pre.vars)
               /\ log[n].pre.vars = log[j].pre.vars
               /\ Quiet(j, n))
              => log[n].res = Lookup(log[j].pre, log[n].sym)

\* C9 witness: an inner let shadowed an outer binding of the same symbol with
\* another value, its body read the inner value, and the read after it found
\* the outer value
C9_Witness ==
    \E j \in Events("let") :
        /\ log[j].exit = "ok"
        /\ \E n \in Events("var_ref") :
               /\ log[j].body_start < n /\ n < j
               /\ ~Free(log[j].pre, log[n].sym)
               /\ log[n].res # Lookup(log[j].pre, log[n].sym)
               /\ \E q \in Events("var_ref") :
                      /\ q > j
                      /\ log[q].sym = log[n].sym
                      /\ log[q].res = Lookup(log[j].pre, log[n].sym)

\* C10: an assignment to a symbol that has a lexical binding changes the
\* value of its most recent lexical binding and nothing else, the dynamic
\* table included, even when the table has the symbol; an assignment to a
\* symbol without a lexical binding sets the symbol's entry of the dynamic
\* table, creating it when missing, and changes nothing else.
C10_SetqLexicalFirst ==
    \A a \in Events("var_set") :
        /\ log[a].post.vars = log[a].pre.vars
        /\ log[a].post.env.catch_stack = log[a].pre.env.catch_stack
        /\ log[a].post.env.thrown = log[a].pre.env.thrown
        /\ IF ~Free(log[a].pre, log[a].name)
           THEN /\ log[a].post.env = log[a].pre.env
                /\ log[a].post.bindings =
                       [log[a].pre.bindings EXCEPT
                           ![Recent(log[a].pre, log[a].name)][2] = log[a].value]
           ELSE /\ log[a].post.bindings = log[a].pre.bindings
                /\ DOMAIN log[a].post.env.vars
                       = DOMAIN log[a].pre.env.vars \cup {log[a].name[2]}
                /\ \A x \in DOMAIN log[a].post.env.vars :
                       log[a].post.env.vars[x] =
                           IF x = log[a].name[2] THEN log[a].value
                           ELSE log[a].pre.env.vars[x]

\* C10 witness: an assignment to a symbol that has both a lexical binding
\* and an entry of the dynamic table changed the binding and left the entry
C10_Witness ==
    \E a \in Events("var_set") :
        /\ ~Free(log[a].pre, log[a].name)
        /\ log[a].name[2] \in DOMAIN log[a].pre.env.vars
        /\ log[a].pre.env.vars[log[a].name[2]] # log[a].value
        /\ log[a].post.bindings # log[a].pre.bindings
        /\ log[a].post.env = log[a].pre.env

\* C11 as stated: defvar and defconst evaluate the value form once (no form
\* when it is omitted, the value being nil) and leave the dynamic table
\* mapping the symbol to the value, every lexical binding being as the value
\* form left it, also when the symbol has a lexical binding.
C11_DefvarWritesDynamicTable ==
    \A j \in Events("defvar") :
        /\ IF Len(log[j].forms) >= 2
           THEN Cardinality({n \in Events("eval") :
                                /\ log[j].start < n /\ n < j
                                /\ log[n].form = log[j].forms[2]}) = 1
           ELSE /\ log[j].value = NIL
                /\ \A n \in Events("eval") : ~(log[j].start < n /\ n < j)
        /\ HasVar(log[j].post.env, log[j].name[2])
        /\ GetVar(log[j].post.env, log[j].name[2]) = log[j].value
        /\ log[j].post.bindings = log[j].pre.bindings

\* C11 witness: a defvar of a symbol that has a lexical binding returned
C11_Witness ==
    \E j \in Events("defvar") :
        /\ ~Free(log[j].pre, log[j].name)
        /\ log[j].value # NIL
        /\ result.ok

\* the function events that made a closure
Lambdas == {f \in Events("function") : log[f].res[1] = "closure"}
\* the symbol is a variable the closure made at f captured, not one of the
\* arguments of the call whose body the snapshot was taken in
Captured(f, snap, sym) ==
    /\ Recent(snap, sym) > 0
    /\ Recent(snap, sym) <= Len(log[f].pre.vars)
\* no assignment to the symbol between positions a and b
Unassigned(a, b, sym) ==
    \A q \in (a + 1)..(b - 1) : ~(log[q].k = "var_set" /\ log[q].name = sym)

\* C12: two closures made in the same let scope share the cell of a captured
\* binding: once a call of one of them has assigned the captured variable, a
\* later call of the other that reads it finds the assigned value.
C12_ClosuresShareCapturedCell ==
    \A f1 \in Lambdas : \A f2 \in Lambdas \ {f1} :
      \A c1 \in Events("call_closure") : \A c2 \in Events("call_closure") :
        \A p \in Events("var_set") : \A n \in Events("var_ref") :
            (/\ log[f1].pre.vars = log[f2].pre.vars
             /\ log[c1].closure = log[f1].res
             /\ log[c2].closure = log[f2].res
             /\ c1 < p /\ p < c2 /\ c2 < n
             /\ log[p].pre.vars = log[c1].body.vars
             /\ log[n].pre.vars = log[c2].body.vars
             /\ log[p].name = log[n].sym
             /\ Captured(f1, log[p].pre, log[p].name)
             /\ Captured(f2, log[n].pre, log[n].sym)
             /\ Unassigned(p, n, log[n].sym))
            => log[n].res = Ok(log[p].value)

C12_Witness ==
    \E f1 \in Lambdas : \E f2 \in Lambdas \ {f1} :
      \E c1 \in Events("call_closure") : \E c2 \in Events("call_closure") :
        \E p \in Events("var_set") : \E n \in Events("var_ref") :
            /\ log[f1].pre.vars = log[f2].pre.vars
            /\ log[c1].closure = log[f1].res
            /\ log[c2].closure = log[f2].res
            /\ c1 < p /\ p < c2 /\ c2 < n
            /\ log[p].pre.vars = log[c1].body.vars
            /\ log[n].pre.vars = log[c2].body.vars
            /\ log[p].name = log[n].sym
            /\ Captured(f1, log[p].pre, log[p].name)
            /\ Captured(f2, log[n].pre, log[n].sym)
            /\ Unassigned(p, n, log[n].sym)
            /\ log[n].res = Ok(log[p].value)
            /\ log[p].value # log[f1].pre.bindings[Recent(log[p].pre, log[p].name)][2]
            /\ result = Ok(log[p].value)

\* the cells of the environment of a closure, in order
IsCell(x) == x[1] = "cell"
EnvCells(clo) == [i \in DOMAIN SelectSeq(Elements(clo[2]), IsCell) |->
                    SelectSeq(Elements(clo[2]), IsCell)[i][2]]
\* the installations of a closure under a function name
Installs == {d \in Events("defalias") : log[d].definition[1] = "closure"}
\* position q is directly in the body of a call of the closure
InCallOf(q, clo) ==
    \E c \in Events("call_closure") :
        /\ c < q
        /\ log[c].closure = clo
        /\ log[q].pre.vars = log[c].body.vars
\* the symbol names a variable of the environment of the closure in the
\* snapshot of a call of it, not one of the arguments
CapturedBy(clo, snap, sym) ==
    /\ Recent(snap, sym) > 0
    /\ Recent(snap, sym) <= Len(EnvCells(clo))
\* the value the definition installed at d held for the symbol then
InstalledValue(d, sym) ==
    log[d].heap_pre[EnvCells(log[d].definition)[
        MaxOf({i \in DOMAIN EnvCells(log[d].definition) :
                 log[d].heap_pre[EnvCells(log[d].definition)[i]].car = sym})]].cdr
\* an assignment to the symbol at p, made in a call of the closure or not
SetsIn(p, sym, clo, inside) ==
    /\ log[p].k = "var_set"
    /\ log[p].name = sym
    /\ InCallOf(p, clo) = inside

\* C13: a closure installed under a global function name is a deep copy made
\* at installation: a read of a captured variable in a later call of the
\* installed function finds the value held at installation whatever has been
\* assigned since through other closures of the defining scope, and an
\* assignment made by the installed copy is not seen by a read through a
\* closure that shares the cells of the original.
C13_InstalledClosureKeepsValues ==
    \A d \in Installs : \A n \in Events("var_ref") :
        /\ (/\ d < n
            /\ InCallOf(n, log[d].copy)
            /\ CapturedBy(log[d].copy, log[n].pre, log[n].sym)
            /\ \A p \in (d + 1)..(n - 1) : ~SetsIn(p, log[n].sym, log[d].copy, TRUE))
           => log[n].res = Ok(InstalledValue(d, log[n].sym))
        /\ (/\ d < n
            /\ ~InCallOf(n, log[d].copy)
            /\ \E c \in Events("call_closure") :
                  /\ d < c /\ c < n
                  /\ log[n].pre.vars = log[c].body.vars
                  /\ EnvCells(log[c].closure) = EnvCells(log[d].definition)
                  /\ CapturedBy(log[c].closure, log[n].pre, log[n].sym)
            /\ \A p \in (d + 1)..(n - 1) : ~SetsIn(p, log[n].sym, log[d].copy, FALSE))
           => log[n].res = Ok(InstalledValue(d, log[n].sym))

\* the installed function reads after another closure of the scope assigned
C13_Witness ==
    \E d \in Installs : \E n \in Events("var_ref") : \E p \in Events("var_set") :
        /\ d < p /\ p < n
        /\ InCallOf(n, log[d].copy)
        /\ CapturedBy(log[d].copy, log[n].pre, log[n].sym)
        /\ SetsIn(p, log[n].sym, log[d].copy, FALSE)
        /\ log[p].pre.vars[Recent(log[p].pre, log[p].name)] \in
               {EnvCells(log[d].definition)[i] : i \in DOMAIN EnvCells(log[d].definition)}
        /\ log[p].value # InstalledValue(d, log[n].sym)
        /\ log[n].res = Ok(InstalledValue(d, log[n].sym))
        /\ result = log[n].res

\* the argument of function at f is a lambda form
OfLambda(f) == IsCons(log[f].arg) /\ log[f].arg[2][1] = Sym("lambda")

\* C14: function applied to (lambda ARGLIST . BODY) yields the list of the
\* symbol closure, an environment and ARGLIST . BODY, where the environment
\* holds the bindings of the lexical stack, oldest first, and then t: it is
\* (t) under an empty stack.  An argument that is not a lambda form is
\* returned as it is, and nothing is evaluated on the way.
C14_FunctionBuildsClosure ==
    \A f \in Events("function") :
        /\ f > 1
        /\ log[f - 1].k = "eval"
        /\ log[f - 1].form = Call("function", <<log[f].arg>>)
        /\ IF OfLambda(f)
           THEN /\ log[f].res[1] = "closure"
                /\ Len(Elements(log[f].res[2])) = Len(log[f].pre.vars) + 1
                /\ \A i \in DOMAIN log[f].pre.vars :
                      Elements(log[f].res[2])[i] = Cell(log[f].pre.vars[i])
                /\ Elements(log[f].res[2])[Len(log[f].pre.vars) + 1] = TRUE_
                /\ log[f].res[3] = Tail(log[f].arg[2])
                /\ (log[f].pre.vars = <<>> => log[f].res[2] = List(<<TRUE_>>))
           ELSE log[f].res = log[f].arg

\* a closure made under two bindings of different names
C14_Witness ==
    \E f \in Events("function") :
        /\ OfLambda(f)
        /\ Len(log[f].pre.bindings) = 2
        /\ log[f].pre.bindings[1][1] # log[f].pre.bindings[2][1]
        /\ log[f].pre.bindings[1][2] # log[f].pre.bindings[2][2]
        /\ result = Ok(log[f].res)

\* the argument list of a closure and how the claims read it: the names
\* before the first marker are required, those between &optional and &rest
\* are optional, the name after &rest takes the rest
ArgList(clo) == Elements(clo[3][1])
MarkAt(l, mark) ==
    IF \E i \in DOMAIN l : l[i] = Sym(mark)
    THEN CHOOSE i \in DOMAIN l : l[i] = Sym(mark) /\ \A j \in 1..(i - 1) : l[j] # Sym(mark)
    ELSE Len(l) + 1
FirstMark(l) ==
    IF MarkAt(l, "&optional") < MarkAt(l, "&rest") THEN MarkAt(l, "&optional")
    ELSE MarkAt(l, "&rest")
RequiredNames(l) == SubSeq(l, 1, FirstMark(l) - 1)
OptionalNames(l) == SubSeq(l, MarkAt(l, "&optional") + 1, MarkAt(l, "&rest") - 1)
HasRest(l) == MarkAt(l, "&rest") < Len(l)
\* the number of arguments fits the argument list
Fits(l, n) ==
    /\ Len(RequiredNames(l)) <= n
    /\ HasRest(l) \/ n <= Len(RequiredNames(l)) + Len(OptionalNames(l))
BodyForms(clo) == {clo[3][i] : i \in 2..Len(clo[3])}

\* C15: the body of a closure is entered exactly when the number of arguments
\* is at least the number of required names and, without a &rest name, at
\* most the number of required and optional names; otherwise the call fails
\* with an arity error and no form of the body is evaluated.
C15_ArityDecidesBinding ==
    /\ \A c \in Events("call_closure") : Fits(ArgList(log[c].closure), Len(log[c].args))
    /\ \A b \in Events("bind_error") :
          /\ ~Fits(ArgList(log[b].closure), Len(log[b].args))
          /\ \E name \in {"lambda", "f"} : log[b].res.error = ArgError(name).error
          /\ (b > 1 => log[b - 1].k # "call_closure")
          /\ \A q \in Events("eval") :
                q > b => log[q].form \notin BodyForms(log[b].closure)
          /\ \A q \in Events("var_set") :
                ~(q > b /\ log[q].name = Sym("w"))

\* a call with more arguments than required and optional names, no &rest
C15_Witness ==
    \E b \in Events("bind_error") :
        /\ Len(log[b].args) > Len(RequiredNames(ArgList(log[b].closure)))
                                + Len(OptionalNames(ArgList(log[b].closure)))
        /\ OptionalNames(ArgList(log[b].closure)) # <<>>
        /\ RequiredNames(ArgList(log[b].closure)) # <<>>
        /\ ~result.ok

\* C16: in the body of a called closure the stack holds, after the bindings
\* of the closure environment, the required names bound to the first
\* arguments in order, each optional name bound to the next argument or to
\* nil when none is left, and the &rest name bound to the list of the
\* arguments left over, in order, which is nil when none is left.
C16_ArgumentsBoundInOrder ==
    \A c \in Events("call_closure") :
        LET l == ArgList(log[c].closure)
            base == Len(EnvCells(log[c].closure))
            R == Len(RequiredNames(l))
            O == Len(OptionalNames(l))
            args == log[c].args
            bound == log[c].body.bindings
        IN /\ Len(bound) = base + R + O + (IF HasRest(l) THEN 1 ELSE 0)
           /\ \A i \in 1..R : bound[base + i] = <<RequiredNames(l)[i], args[i]>>
           /\ \A i \in 1..O :
                 bound[base + R + i] =
                     <<OptionalNames(l)[i], IF R + i <= Len(args) THEN args[R + i] ELSE NIL>>
           /\ HasRest(l) =>
                 bound[base + R + O + 1] =
                     <<l[Len(l)], List(SubSeq(args, R + O + 1, Len(args)))>>

\* one required name, one optional name and two arguments left for &rest
C16_Witness ==
    \E c \in Events("call_closure") :
        /\ RequiredNames(ArgList(log[c].closure)) # <<>>
        /\ OptionalNames(ArgList(log[c].closure)) # <<>>
        /\ HasRest(ArgList(log[c].closure))
        /\ Len(log[c].args) = 3
        /\ result = Ok(List(SubSeq(log[c].args, 3, 3)))

\* the condition-cases whose body form failed with an ordinary error
FailedBodies == {j \in Events("cc") : IsError(log[j].body)}
\* the first handler that is not nil, 0 when there is none
FirstLive(hs) ==
    IF \A i \in DOMAIN hs : hs[i] = NIL THEN 0
    ELSE CHOOSE i \in DOMAIN hs : hs[i] # NIL /\ \A q \in 1..(i - 1) : hs[q] = NIL
\* the handler is a pair whose condition is error or a list of error and debug
Matches(h) ==
    /\ h[1] \in {"list", "dot"}
    /\ \/ h[2][1] = Sym("error")
       \/ /\ h[2][1][1] = "list"
          /\ \A i \in DOMAIN h[2][1][2] : h[2][1][2][i] \in {Sym("error"), Sym("debug")}
HandlerBody(h) == IF h[1] = "list" THEN Tail(h[2]) ELSE <<>>
IsEvalEvent(ev) == ev.k = "eval"
\* the forms evaluated between positions a and b, in order
EvalForms(a, b) ==
    [i \in DOMAIN SelectSeq(SubSeq(log, a + 1, b - 1), IsEvalEvent) |->
        SelectSeq(SubSeq(log, a + 1, b - 1), IsEvalEvent)[i].form]
IsPrefix(p, q) == Len(p) <= Len(q) /\ SubSeq(q, 1, Len(p)) = p

\* C17: when the body form of a condition-case fails with an ordinary error
\* and the first handler that is not nil is a pair whose condition is the
\* symbol error or a list of error and debug, that handler is entered and no
\* other: the forms evaluated are the forms of its body in order, and the
\* condition-case returns the value of the last of them, nil for a body
\* without forms.
C17_FirstMatchingHandlerRuns ==
    \A j \in FailedBodies :
        (/\ FirstLive(log[j].handlers) # 0
         /\ Matches(log[j].handlers[FirstLive(log[j].handlers)]))
        => LET h == log[j].handlers[FirstLive(log[j].handlers)]
               forms == EvalForms(log[j].mark, j)
           IN /\ log[log[j].mark + 1].k = "cc_handler"
              /\ log[log[j].mark + 1].handler = h
              /\ Cardinality({q \in Events("cc_handler") : log[j].mark < q /\ q < j}) = 1
              /\ IsPrefix(forms, HandlerBody(h))
              /\ log[j].res.ok =>
                    /\ forms = HandlerBody(h)
                    /\ HandlerBody(h) = <<>> => log[j].res = Ok(NIL)
                    /\ (/\ HandlerBody(h) # <<>>
                        /\ HandlerBody(h)[Len(HandlerBody(h))][1] = "int")
                       => log[j].res = Ok(HandlerBody(h)[Len(HandlerBody(h))])

\* a handler of two forms, after a nil handler and before another handler
C17_Witness ==
    \E j \in FailedBodies :
        /\ FirstLive(log[j].handlers) = 2
        /\ Len(log[j].handlers) = 3
        /\ Matches(log[j].handlers[2])
        /\ Len(HandlerBody(log[j].handlers[2])) = 2
        /\ EvalForms(log[j].mark, j) = HandlerBody(log[j].handlers[2])
        /\ result = Ok(HandlerBody(log[j].handlers[2])[2])

\* the car and the cdr of a value that is a pair
Car(v) == v[2][1]
Cdr(v) ==
    IF v[1] = "list" THEN List(Tail(v[2]))
    ELSE IF Len(v[2]) = 1 THEN v[3]
    ELSE <<"dot", Tail(v[2]), v[3]>>

\* C18: in the body of the selected handler a VAR that is not nil is bound
\* to a pair whose car is the symbol error and whose cdr is the message
\* string of the error, and for a VAR that is nil the lexical stack is the
\* one the condition-case was entered with.
C18_HandlerBindsErrorPair ==
    \A h \in Events("cc_handler") :
        IF log[h].var # NIL
        THEN /\ Lookup(log[h].bound, log[h].var).ok
             /\ Lookup(log[h].bound, log[h].var).val[1] \in {"list", "dot"}
             /\ Car(Lookup(log[h].bound, log[h].var).val) = Sym("error")
             /\ Cdr(Lookup(log[h].bound, log[h].var).val) = Str(Display(log[h].error))
        ELSE log[h].bound.vars = log[h].pre.vars

\* a closure made in a handler under a nil VAR, at top level
C18_Witness ==
    \E h \in Events("cc_handler") : \E f \in Events("function") :
        /\ log[h].var = NIL
        /\ log[h].pre.vars = <<>>
        /\ h < f
        /\ OfLambda(f)
        /\ log[f].pre.vars = log[h].bound.vars
        /\ result = Ok(log[f].res)

\* C19: when the body form of a condition-case fails with an ordinary error
\* and every handler is nil or there is none, the condition-case fails with
\* the error of the body form and nothing is evaluated after the body form.
C19_UnhandledErrorPropagates ==
    \A j \in FailedBodies :
        FirstLive(log[j].handlers) = 0
        => /\ log[j].res = log[j].body
           /\ j = log[j].mark + 1

\* two nil handlers
C19_Witness ==
    \E j \in FailedBodies :
        /\ Len(log[j].handlers) = 2
        /\ FirstLive(log[j].handlers) = 0
        /\ result = log[j].body

ConfigurationErrors ==
    {new_error("Invalid condition handler").error,
     new_error("non-error conditions not yet supported").error}

\* C20: when the body form of a condition-case fails with an ordinary error
\* and the first handler that is not nil is not a pair, or is a pair whose
\* condition is neither the symbol error nor a list of error and debug, the
\* condition-case fails with a configuration error, not with the error of
\* the body form, and no handler is entered and nothing is evaluated.
C20_InvalidHandlerFails ==
    \A j \in FailedBodies :
        (/\ FirstLive(log[j].handlers) # 0
         /\ ~Matches(log[j].handlers[FirstLive(log[j].handlers)]))
        => /\ IsError(log[j].res)
           /\ log[j].res.error \in ConfigurationErrors
           /\ log[j].res.error # log[j].body.error
           /\ j = log[j].mark + 1

\* a handler that is not a pair, before a valid handler
C20_Witness ==
    \E j \in FailedBodies :
        /\ FirstLive(log[j].handlers) # 0
        /\ log[j].handlers[FirstLive(log[j].handlers)][1] \notin {"list", "dot"}
        /\ \E i \in DOMAIN log[j].handlers :
              i > FirstLive(log[j].handlers) /\ Matches(log[j].handlers[i])
        /\ ~result.ok
        /\ result.error \in ConfigurationErrors

\* what evaluating an atom or a quoted object yields in a snapshot
ValueOf(snap, f) ==
    IF IsSymbol(f) THEN Lookup(snap, f)
    ELSE IF f[1] = "list" /\ f[2][1] = Sym("quote") THEN Ok(f[2][2])
    ELSE Ok(f)
\* the tag and value forms of catch and throw that are atoms or quotations
Simple(f) == f[1] \in {"int", "sym", "nil", "t"} \/ (f[1] = "list" /\ f[2][1] = Sym("quote"))

\* C21: the tag a catch pushes is the value of its tag form, the tag and the
\* value a throw uses are the values of its tag form and of its value form,
\* and a catch that recovers a throw returns the value of the value form of
\* that throw.
C21_CatchAndThrowEvaluateForms ==
    /\ \A c \in Events("catch") :
          Simple(log[c].form) => ValueOf(log[c].pre, log[c].form) = Ok(log[c].tag)
    /\ \A q \in Events("throw") :
          /\ Simple(log[q].tag_form) => ValueOf(log[q].pre, log[q].tag_form) = Ok(log[q].tag)
          /\ Simple(log[q].value_form)
                => ValueOf(log[q].pre, log[q].value_form) = Ok(log[q].value)
    /\ \A c \in Events("catch") :
          (IsSignal(log[c].body) /\ log[c].res.ok /\ Simple(log[LastThrow(c)].value_form))
          => Ok(log[c].res.val) = ValueOf(log[LastThrow(c)].pre, log[LastThrow(c)].value_form)

\* a catch whose tag form is a variable holding the tag a throw names
C21_Witness ==
    \E c \in Events("catch") : \E q \in Events("throw") :
        /\ q < c
        /\ IsSymbol(log[c].form)
        /\ ValueOf(log[c].pre, log[c].form) = Ok(log[q].tag_form)
        /\ log[q].tag_form[1] = "int"
        /\ IsError(log[c].res)

\* C22: whenever a catch form finishes, with a value, with an ordinary error
\* or with a throw that it recovered or passed on, the catch-tag stack is the
\* one the catch form started with; so the stack after a top-level
\* evaluation is the stack at its start.
C22_CatchStackBalanced ==
    /\ \A c \in Events("catch") :
          log[c].post.env.catch_stack = log[c].pre.env.catch_stack
    /\ log # <<>> => env.catch_stack = log[1].pre.env.catch_stack

\* a catch left by a throw it passed on to an outer catch that recovered it
C22_Witness ==
    \E c \in Events("catch") : \E d \in Events("catch") :
        /\ c < d
        /\ IsSignal(log[c].res)
        /\ IsSignal(log[d].body) /\ log[d].res.ok
        /\ log[c].pre.env.catch_stack # <<>>
        /\ result.ok

\* the evaluations of form f between positions a and b
EvalsOf(f, a, b) == {q \in Events("eval") : a < q /\ q < b /\ log[q].form = f}
\* t2 is the test of the loop that follows its test at t1
NextTest(t1, t2) ==
    /\ t1 < t2
    /\ log[t2].forms = log[t1].forms
    /\ \A q \in Events("while_test") : ~(t1 < q /\ q < t2)

\* C26: between two successive tests of a while loop the condition form is
\* evaluated once, for the second test, after each body form was evaluated
\* once, in order; the loop goes on exactly while the test is not nil.
C26_WhileEvaluatesConditionOnce ==
    \A t1 \in Events("while_test") :
        /\ (log[t1].res.val = NIL) =>
              \A t2 \in Events("while_test") : ~NextTest(t1, t2)
        /\ \A t2 \in Events("while_test") :
              NextTest(t1, t2) =>
                /\ Cardinality(EvalsOf(log[t1].forms[1], t1, t2)) = 1
                /\ \A i \in 2..Len(log[t1].forms) :
                      /\ Cardinality(EvalsOf(log[t1].forms[i], t1, t2)) = 1
                      /\ \A q \in EvalsOf(log[t1].forms[i], t1, t2) :
                            \A r \in EvalsOf(log[t1].forms[1], t1, t2) : q < r

\* a loop whose condition shifts its variables ends with another value of n
\* than the one a single evaluation of the condition per round leaves
C26_Witness ==
    \E t1 \in Events("while_test") : \E t2 \in Events("while_test") :
        /\ NextTest(t1, t2)
        /\ log[t1].forms[1] = Shift
        /\ Cardinality(EvalsOf(Shift, t1, t2)) = 2
        /\ result = Ok(NIL)

\* C27: when a let that names the same special variable more than once
\* completes normally, the dynamic table holds for the variable the value it
\* had immediately before the let, and a read that follows finds that value.
C27_LetRestoresSpecialNamedTwice ==
    \A j \in Events("let") :
        (log[j].exit = "ok" /\ ~NamedOnce(j)) =>
            \A s \in Specials(j) :
                /\ log[j].post.env.vars[s] = log[j].pre.env.vars[s]
                /\ \A n \in Events("var_ref") :
                       (/\ n > j
                        /\ log[n].sym = Sym(s)
                        /\ Free(log[n].pre, Sym(s))
                        /\ Quiet(j, n))
                       => log[n].res = Ok(log[j].pre.env.vars[s])

\* a let that named a special variable twice completed and the variable is
\* left with the first value the let gave it
C27_Witness ==
    \E j \in Events("let") :
        /\ log[j].exit = "ok"
        /\ Len(log[j].dynamic_bindings) = 2
        /\ log[j].dynamic_bindings[1][1] = log[j].dynamic_bindings[2][1]
        /\ log[j].dynamic_bindings[1][2] = log[j].pre.env.vars[log[j].dynamic_bindings[1][1][2]]
        /\ log[j].post.env.vars[log[j].dynamic_bindings[1][1][2]] = log[j].dynamic_bindings[2][2]
        /\ log[j].dynamic_bindings[2][2] # log[j].dynamic_bindings[1][2]

\* C28: when a let, a let* or a condition-case finishes, with a value, an
\* ordinary error or a throw, the lexical stack is the stack the form
\* started with.
C28_FormsLeaveLexicalStack ==
    /\ \A j \in Events("let") : log[j].post.vars = log[j].pre.vars
    /\ \A j \in Events("cc") : log[j].post.vars = log[j].pre.vars

\* a variable that has no binding where a let starts is read, after the let
\* failed and the error was handled, from the binding the let made
C28_Witness ==
    \E j \in Events("let") : \E n \in Events("var_ref") :
        /\ log[j].exit = "body_err"
        /\ j < n
        /\ Free(log[j].pre, log[n].sym)
        /\ ~Free(log[n].pre, log[n].sym)
        /\ Len(log[n].pre.vars) = Len(log[j].post.vars)
        /\ log[n].pre.vars = log[j].post.vars
        /\ log[n].res.ok
        /\ result = log[n].res

\* C29: a let of a symbol that has a global value but was never named by a
\* defvar or defconst binds the symbol lexically, and a function called from
\* the body of the let that reads the symbol as a free variable finds the
\* global value.
C29_OnlyDefvarMakesSpecial ==
    \A j \in Events("let") : \A b \in DOMAIN Elements(log[j].bindings) :
        LET sym == Elements(log[j].bindings)[b][2][1]
        IN (/\ sym[2] \notin declared
            /\ Free(log[j].pre, sym)
            /\ HasVar(log[j].pre.env, sym[2])
            /\ log[j].exit = "ok")
           => /\ ~Free(log[j].bound, sym)
              /\ log[j].bound.env.vars[sym[2]] = log[j].pre.env.vars[sym[2]]
              /\ \A n \in Events("var_ref") :
                    (/\ log[j].body_start < n /\ n < j
                     /\ log[n].sym = sym
                     /\ InCall(n)
                     /\ Free(log[n].pre, sym)
                     /\ Quiet(log[j].body_start, n))
                    => log[n].res = Ok(log[j].pre.env.vars[sym[2]])

\* foo has a global value from a setq only, and a closure made outside the
\* let of foo and called from its body reads the let's value
C29_Witness ==
    \E v \in Ints :
        /\ form = CallForms(v)["outer"]
        /\ "foo" \notin declared
        /\ HasVar(log[1].pre.env, "foo")
        /\ GetVar(log[1].pre.env, "foo") # v
        /\ result = Ok(v)
        /\ \E n \in Events("var_ref") : log[n].sym = Sym("foo") /\ InCall(n)

\* the cells of a stack
CellsOf(stack) == {stack[i] : i \in DOMAIN stack}
\* the return of the call entered at c
ReturnOf(c, r) ==
    /\ c < r
    /\ log[r].k = "call_return"
    /\ Cardinality({q \in Events("call_closure") : c < q /\ q < r})
         = Cardinality({q \in Events("call_return") : c < q /\ q < r})
    /\ \A p \in Events("call_return") :
          (c < p /\ p < r) =>
              Cardinality({q \in Events("call_closure") : c < q /\ q < p})
                > Cardinality({q \in Events("call_return") : c < q /\ q < p})

\* C30: the stack a closure body starts with is the cells of the closure
\* environment followed by cells that are not the caller's; a read in the
\* body finds the argument of that name before a captured binding, and finds
\* no binding of the caller that the closure did not capture; when the call
\* returns, the caller's stack is the one it had at the call.
C30_ClosureBodyHasFreshStack ==
    /\ \A c \in Events("call_closure") :
          /\ SubSeq(log[c].body.vars, 1, Len(EnvCells(log[c].closure)))
                = EnvCells(log[c].closure)
          /\ CellsOf(log[c].body.vars) \cap CellsOf(log[c].caller.vars)
                \subseteq CellsOf(EnvCells(log[c].closure))
          /\ \A n \in Events("var_ref") :
                (/\ c < n
                 /\ log[n].pre.vars = log[c].body.vars
                 /\ Quiet(c, n)
                 /\ \A r \in Events("call_return") : ~(c < r /\ r < n))
                => /\ (\E i \in DOMAIN log[c].body.bindings :
                          /\ i > Len(EnvCells(log[c].closure))
                          /\ log[c].body.bindings[i][1] = log[n].sym)
                      => /\ Recent(log[c].body, log[n].sym) > Len(EnvCells(log[c].closure))
                         /\ log[n].res = Ok(log[c].body.bindings[
                                                Recent(log[c].body, log[n].sym)][2])
                   /\ Free(log[c].body, log[n].sym)
                      => log[n].res = IF HasVar(log[n].pre.env, log[n].sym[2])
                                      THEN Ok(GetVar(log[n].pre.env, log[n].sym[2]))
                                      ELSE new_error("Void variable")
    /\ \A r \in Events("call_return") : log[r].post.vars = log[r].caller.vars

\* a call whose body left a binding behind returned, and the caller then
\* found the variable void
C30_Witness ==
    \E c \in Events("call_closure") : \E r \in Events("call_return") :
      \E n \in Events("var_ref") :
        /\ ReturnOf(c, r)
        /\ r < n
        /\ Len(log[r].callee.vars) > Len(log[c].body.vars)
        /\ log[c].caller.vars # <<>>
        /\ log[n].pre.vars = log[c].caller.vars
        /\ ~Free(log[r].callee, log[n].sym)
        /\ log[n].res = new_error("Void variable")

\* the objects of the arena have one of the three shapes
HeapTypeOK ==
    \A a \in DOMAIN objects : objects[a].type \in {"cons", "vec", "free"}

---------------------------------------------------------------------------
(* Equality of objects: the arena holds two structures that a loader of    *)
(* literal data placed in it, each left mutable or made constant, and ==   *)
(* is applied to the objects the program holds                             *)

\* a structure to place: an atom, a cons of two structures, a vector of some
Leaves ==
    Atoms \cup {<<"cons", x, y>> : x \in Atoms, y \in Atoms}
          \cup {<<"vec", v>> : v \in Vecs(Atoms)}
Shapes ==
    {<<"cons", x, y>> : x \in Leaves, y \in Leaves} \cup {<<"vec", v>> : v \in Vecs(Leaves)}

RECURSIVE Place(_, _, _), PlaceAll(_, _, _, _)
\* the arena with the structure placed in it, parts first, and the value of it
placed_cons(car, rest, const) ==
    [objs |-> Append(rest.objs, IF const THEN mark_const(Cons_new(car.val, rest.val))
                                ELSE Cons_new(car.val, rest.val)),
     val |-> ConsPtr(Len(rest.objs) + 1)]
place_cdr(car, shape, const) == placed_cons(car, Place(car.objs, shape[3], const), const)
placed_vec(all, const) ==
    [objs |-> Append(all.objs, IF const THEN make_const(LispVec_new(all.vals))
                               ELSE LispVec_new(all.vals)),
     val |-> VecPtr(Len(all.objs) + 1)]
place_next(one, shapes, const, vals) ==
    PlaceAll(one.objs, Tail(shapes), const, Append(vals, one.val))
PlaceAll(objs, shapes, const, vals) ==
    IF shapes = <<>> THEN [objs |-> objs, vals |-> vals]
    ELSE place_next(Place(objs, Head(shapes), const), shapes, const, vals)
Place(objs, shape, const) ==
    IF shape[1] = "cons" THEN place_cdr(Place(objs, shape[2], const), shape, const)
    ELSE IF shape[1] = "vec" THEN placed_vec(PlaceAll(objs, shape[2], const, <<>>), const)
    ELSE [objs |-> objs, val |-> shape]
Loaded(s1, c1, s2, c2) == Place(Place(<<>>, s1, c1).objs, s2, c2).objs

EqualityInit ==
    \E s1 \in Shapes, s2 \in Shapes, c1 \in BOOLEAN, c2 \in BOOLEAN :
        ArenaOf(Loaded(s1, c1, s2, c2),
                {a \in DOMAIN Loaded(s1, c1, s2, c2) :
                    IF Loaded(s1, c1, s2, c2)[a].type = "cons"
                    THEN ~Loaded(s1, c1, s2, c2)[a].mutable
                    ELSE Loaded(s1, c1, s2, c2)[a].is_const})

\* the addresses an object points to
Pointees(obj) ==
    IF obj.type = "cons" THEN {v[2] : v \in {w \in {obj.car, obj.cdr} : IsPtr(w)}}
    ELSE IF obj.type = "vec"
         THEN {obj.inner[i][2] : i \in {j \in DOMAIN obj.inner : IsPtr(obj.inner[j])}}
    ELSE {}
\* the objects the program holds: those that are part of no other object
Held(objs) == Live(objs) \ UNION {Pointees(objs[a]) : a \in DOMAIN objs}

\* == on two objects of the arena
Compare ==
    /\ phase = "objects"
    /\ \E a \in Held(objects), b \in Held(objects) :
         operation' = [op |-> "eq", obj |-> a, arg |-> b,
                       res |-> IF eq_obj(objects, PtrTo(objects, a), PtrTo(objects, b))
                               THEN "equal" ELSE "different",
                       before |-> objects[a]]
    /\ UNCHANGED <<interpreter, objects, frozen>>

EqualitySpec == EqualityInit /\ [][Compare]_vars

---------------------------------------------------------------------------
(* Collection: the arena holds any graph of up to MaxGraph objects, and a  *)
(* collection runs with some of them registered as roots                   *)

MaxGraph == 3

\* the graphs of objects of the given types: a car, a cdr and an element are
\* nil or any object of the graph
PointersOrNil(types) ==
    {NIL} \cup {IF types[a] = "cons" THEN ConsPtr(a) ELSE VecPtr(a) : a \in DOMAIN types}
ObjectsOf(types, a) ==
    IF types[a] = "cons"
    THEN {Cons_new(x, y) : x \in PointersOrNil(types), y \in PointersOrNil(types)}
    ELSE {LispVec_new(v) : v \in Vecs(PointersOrNil(types))}
RECURSIVE GraphsUpTo(_, _)
GraphsUpTo(types, n) ==
    IF n = 0 THEN {<<>>}
    ELSE {Append(g, o) : g \in GraphsUpTo(types, n - 1), o \in ObjectsOf(types, n)}
Graphs ==
    UNION {GraphsUpTo(types, Len(types)) :
             types \in UNION {[1..n -> {"cons", "vec"}] : n \in 1..MaxGraph}}

CollectInit == \E g \in Graphs : ArenaOf(g, {})

\* Arena::garbage_collect with the objects of rs registered as roots
Collected(rs, gc) ==
    /\ objects' = gc.swept
    /\ operation' = [op |-> "collect", obj |-> 0, arg |-> rs,
                     res |-> {a \in Live(objects) : is_marked(gc.marked[a])},
                     before |-> objects]
Collect ==
    /\ phase = "objects"
    /\ \E rs \in SUBSET Live(objects) : Collected(rs, garbage_collect(objects, rs))
    /\ UNCHANGED <<interpreter, frozen>>

\* the constant flag of an object, whichever its type
IsConst(obj) == IF obj.type = "cons" THEN ~obj.mutable ELSE obj.is_const
Mutations == {"set_car", "set_cdr", "try_mut"}
Freezes == {"mark_const", "make_const"}
\* what a successful mutation leaves in the object
Mutated(before, op, arg) ==
    IF op = "set_car" THEN [before EXCEPT !.car = arg]
    ELSE IF op = "set_cdr" THEN [before EXCEPT !.cdr = arg]
    ELSE IF arg[1] = 0 THEN before
    ELSE [before EXCEPT !.inner[arg[1]] = arg[2]]

\* C23: an object that was frozen is constant in every later state; a
\* set_car, set_cdr or try_mut on it ends in an error and leaves the object
\* as it was; a freeze of a frozen object leaves it as it was; on an object
\* never frozen the mutation succeeds and stores the value.
C23_FrozenObjectsRejectMutation ==
    /\ \A a \in frozen : IsConst(objects[a])
    /\ operation.op \in Mutations /\ operation.obj \in frozen
         => /\ operation.res # "ok"
            /\ objects[operation.obj] = operation.before
    /\ operation.op \in Freezes /\ IsConst(operation.before)
         => objects[operation.obj] = operation.before
    /\ operation.op \in Mutations /\ operation.obj \notin frozen
         => /\ operation.res = "ok"
            /\ objects[operation.obj]
                 = Mutated(operation.before, operation.op, operation.arg)

\* a frozen cons refused a set_car of a value that differs from its car, in
\* an arena where a frozen vector had an element
C23_Witness ==
    /\ operation.op = "set_car"
    /\ operation.obj \in frozen
    /\ operation.res = "Attempt to call set-car on immutable cons cell"
    /\ operation.arg # objects[operation.obj].car
    /\ \E a \in frozen : objects[a].type = "vec" /\ objects[a].inner # <<>>

\* what an object holds, without its address, its flags and its mark
RECURSIVE Content(_, _)
Content(objs, v) ==
    IF v[1] = "consptr"
    THEN <<"cons", Content(objs, objs[v[2]].car), Content(objs, objs[v[2]].cdr)>>
    ELSE IF v[1] = "vecptr"
    THEN <<"vec", Len(objs[v[2]].inner),
           [i \in DOMAIN objs[v[2]].inner |-> Content(objs, objs[v[2]].inner[i])]>>
    ELSE v
Compared(a, b) == operation.op = "eq" /\ operation.obj = a /\ operation.arg = b

\* C24: two objects compare equal exactly when they hold the same content:
\* two conses when their cars hold the same and their cdrs hold the same,
\* two vectors when they have the same length and hold the same at every
\* index; the addresses, the mutable and constant flags and the marks of the
\* objects compared, and of the objects inside them, do not count.
C24_EqualityIsStructural ==
    \A a \in DOMAIN objects, b \in DOMAIN objects :
        Compared(a, b) =>
            (operation.res = "equal"
                <=> Content(objects, PtrTo(objects, a)) = Content(objects, PtrTo(objects, b)))

\* two conses at different addresses, one constant and one mutable, whose
\* cars are conses at different addresses, compared equal
C24_Witness ==
    \E a \in DOMAIN objects, b \in DOMAIN objects :
        /\ Compared(a, b)
        /\ operation.res = "equal"
        /\ a # b
        /\ objects[a].type = "cons" /\ objects[b].type = "cons"
        /\ objects[a].mutable # objects[b].mutable
        /\ objects[a].car[1] = "consptr" /\ objects[b].car[1] = "consptr"
        /\ objects[a].car # objects[b].car
        /\ objects[a].cdr[1] = "vecptr" /\ objects[a].cdr # objects[b].cdr

\* the addresses reached from a set of addresses
RECURSIVE ReachableFrom(_, _)
ReachableFrom(objs, S) ==
    IF UNION {Pointees(objs[a]) : a \in S} \subseteq S THEN S
    ELSE ReachableFrom(objs, S \cup UNION {Pointees(objs[a]) : a \in S})

\* the events with a collection safepoint, and the cells an event reads
Safepoints == Events("top") \cup Events("call_closure")
CellsRead(e) ==
    IF log[e].k \in {"var_ref", "var_set", "function"} THEN CellsOf(log[e].pre.vars)
    ELSE IF log[e].k = "call_closure"
    THEN CellsIn(log[e].closure) \cup CellsOfAll(log[e].args) \cup CellsOf(log[e].body.vars)
    ELSE IF log[e].k = "call_return" THEN CellsIn(log[e].res.val)
    ELSE {}

\* the evaluation and the collections of the arena
CollectSpec == (Init \/ CollectInit) /\ [][Next \/ Collect]_vars

\* C25: a cell of the arena that the evaluator reads at or after a
\* safepoint, and that existed at the safepoint, is one the mark phase
\* reaches from the roots registered there; a collection marks every object
\* reachable from its roots, and leaves every such object as it was.
C25_CollectionKeepsRootedValues ==
    /\ \A s \in Safepoints : \A e \in DOMAIN log :
          s <= e => \A a \in CellsRead(e) :
                       a <= log[s].safepoint.cells => a \in log[s].safepoint.live
    /\ operation.op = "collect"
         => /\ ReachableFrom(operation.before, operation.arg) \subseteq operation.res
            /\ \A a \in ReachableFrom(operation.before, operation.arg) :
                 objects[a] = operation.before[a]

\* a collection freed an object and kept a rooted cons whose car and cdr
\* lead to different objects, and a vector that is no root
C25_CollectWitness ==
    /\ operation.op = "collect"
    /\ \E a \in operation.arg :
         /\ operation.before[a].type = "cons"
         /\ IsPtr(operation.before[a].car) /\ IsPtr(operation.before[a].cdr)
         /\ operation.before[a].car # operation.before[a].cdr
    /\ \E a \in DOMAIN objects : objects[a] = Freed
    /\ \E a \in operation.res : operation.before[a].type = "vec" /\ a \notin operation.arg
\* after the safepoint of a call the evaluator read a cell that was, at the
\* safepoint, on no part of the caller's stack, of the closure or of the
\* arguments: a frame's root kept it
C25_Witness ==
    \E s \in Events("call_closure") : \E e \in DOMAIN log :
        /\ s < e
        /\ \E a \in CellsRead(e) :
             /\ a <= log[s].safepoint.cells
             /\ a \in log[s].safepoint.live
             /\ a \notin CellsOf(log[s].caller.vars)
             /\ a \notin CellsIn(log[s].closure) \cup CellsOfAll(log[s].args)

---------------------------------------------------------------------------
(* A throw out of a closure body                                           *)

\* the steps after position j up to the catch at c only leave forms, and
\* each form left hands the throw signal on unchanged
HandsOn(j, c) ==
    \A n \in (j + 1)..(c - 1) :
        /\ log[n].k \in Unwinding
        /\ log[n].k = "catch" => IsSignal(log[n].res) /\ log[n].res = log[n].body
        /\ log[n].k = "cc" => IsSignal(log[n].res) /\ log[n].res = log[n].body
        /\ log[n].k = "call_return" => IsSignal(log[n].res)

\* C31: a throw signal that leaves the body of a closure passes through the
\* invocation and through every invocation around it as a throw signal:
\* nothing is evaluated between the throw and the return of the call, the
\* catch of the thrown tag that is reached next returns the thrown value, and
\* every condition-case and every catch of another tag on the way fails with
\* the signal without running a handler.
C31_ThrowUnwindsThroughClosureCall ==
    \A j \in Events("call_return") :
        IsSignal(log[j].res) =>
            LET i == LastThrow(j)
            IN /\ i # 0
               /\ HandsOn(i, j)
               /\ \E c \in Events("catch") :
                      /\ c > j
                      /\ log[c].tag = log[i].tag
                      /\ IsSignal(log[c].body)
                      /\ log[c].res = Ok(log[i].value)
                      /\ HandsOn(j, c)
                      /\ \A n \in (j + 1)..(c - 1) :
                             log[n].k = "catch" => log[n].tag # log[i].tag

\* C31 witness: a throw left a closure invocation, then a condition-case
\* that has an error handler, then a second invocation, and the catch around
\* them returned the thrown value
C31_Witness ==
    \E j \in Events("call_return"), n \in Events("call_return"), h \in Events("cc"),
       c \in Events("catch") :
        /\ j < h /\ h < n /\ n < c
        /\ IsSignal(log[j].res) /\ IsSignal(log[n].res)
        /\ LastThrow(j) # 0 /\ LastThrow(n) = LastThrow(j)
        /\ log[h].handlers # <<>> /\ IsSignal(log[h].body)
        /\ log[c].res = Ok(log[LastThrow(j)].value)
        /\ result = log[c].res

---------------------------------------------------------------------------
(* Reading the history of a function call                                  *)

\* the steps of the given kind that belong to the call whose argument loop
\* starts at p: those on the level of p up to the next call on that level
OfCall(p, kind) ==
    {q \in Events(kind) :
        /\ q > p
        /\ log[q].level = log[p].level
        /\ ~\E r \in Events("call_args") : p < r /\ r < q /\ log[r].level = log[p].level}
\* the step of the call at p that ended the evaluation of argument i
DoneAt(p, i) == CHOOSE d \in OfCall(p, "arg_done") : log[d].index = i

\* C32: in a function call every argument form is evaluated once, from left
\* to right, each after the one before it has yielded a value; the function
\* is invoked after all of them, once, with the values in the order of the
\* forms; after an argument form that fails no later argument form is
\* evaluated and the function is not invoked.
C32_ArgumentsEvaluatedInOrder ==
    \A p \in Events("call_args") :
        LET n == Len(log[p].forms)
            A == OfCall(p, "arg")
            D == OfCall(p, "arg_done")
            V == OfCall(p, "invoke")
        IN /\ Cardinality(V) <= 1
           /\ \A q \in A :
                 /\ log[q].index \in 1..n
                 /\ log[q].form = log[p].forms[log[q].index]
                 /\ log[q + 1].k = "eval" /\ log[q + 1].form = log[q].form
                 /\ \A q2 \in A : q < q2 => log[q].index < log[q2].index
                 /\ \A i \in 1..(log[q].index - 1) :
                       \E d \in D : d < q /\ log[d].index = i /\ log[d].res.ok
                 /\ Cardinality({d \in D : log[d].index = log[q].index /\ d > q}) = 1
           /\ \A d \in D :
                 /\ \E q \in A : q < d /\ log[q].index = log[d].index
                 /\ ~log[d].res.ok => /\ ~\E q \in A : q > d
                                      /\ V = {}
           /\ \A v \in V :
                 /\ \A q \in A \cup D : q < v
                 /\ \A i \in 1..n : \E q \in A : log[q].index = i
                 /\ \A d \in D : log[d].res.ok
                 /\ log[v].args = [i \in 1..n |-> log[DoneAt(p, i)].res.val]
                 /\ log[v].func[1] = "closure"
                      => /\ log[v + 1].k \in {"call_closure", "bind_error"}
                         /\ log[v + 1].args = log[v].args
                 /\ log[v].func = Subr("funcall") /\ log[v].args[1][1] = "closure"
                      => /\ log[v + 1].k \in {"call_closure", "bind_error"}
                         /\ log[v + 1].args = Tail(log[v].args)
           /\ (\A i \in 1..n : \E d \in D : log[d].index = i /\ log[d].res.ok) => V # {}

\* C32 witness: one call stopped at its failing second argument form with
\* the third not evaluated and x as the first had set it, and a later call
\* was invoked with the values of its three argument forms, the third of
\* which read what the second had assigned
C32_Witness ==
    \E p \in Events("call_args"), r \in Events("call_args") :
        /\ p < r
        /\ Len(log[p].forms) = 4 /\ Len(log[r].forms) = 4
        /\ OfCall(p, "invoke") = {}
        /\ \E d \in OfCall(p, "arg_done") : log[d].index = 3 /\ IsError(log[d].res)
        /\ ~\E q \in OfCall(p, "arg") : log[q].index = 4
        /\ \E v \in OfCall(r, "invoke") :
              /\ log[v].args[2] \in Ints
              /\ log[v].args[3] = IntObj(9)
              /\ log[v].args[4] = IntObj(9)
              /\ log[v + 1].k = "call_closure"

---------------------------------------------------------------------------
(* Reading the history of a setq                                           *)

IsSetqForm(f) == f[1] = "list" /\ f[2] # <<>> /\ f[2][1] = Sym("setq")
\* the evaluations that enter a setq
Setqs == {e \in Events("eval") : IsSetqForm(log[e].form)}
MinOf(S) == CHOOSE i \in S : \A j \in S : i <= j
\* how many setq are entered and not left at position q
SetqDepth(q) ==
    Cardinality({e \in Setqs : e <= q}) - Cardinality({x \in Events("setq_exit") : x < q})
\* the step that leaves the setq entered at p
SetqExit(p) ==
    MinOf({x \in Events("setq_exit") : x > p /\ SetqDepth(x) = SetqDepth(p)})
\* the pairs the setq entered at p has taken up
PairsOf(p) ==
    {q \in Events("setq_pair") : p < q /\ q < SetqExit(p) /\ SetqDepth(q) = SetqDepth(p)}
\* the step of the setq at p that follows its pair at q
AfterPair(p, q) == MinOf({n \in PairsOf(p) \cup {SetqExit(p)} : n > q})
\* the forms that follow the symbol setq
SetqArgs(p) == Tail(log[p].form[2])
WellFormed(F) ==
    /\ F # <<>>
    /\ Len(F) % 2 = 0
    /\ \A i \in DOMAIN F : i % 2 = 1 => IsSymbol(F[i])

\* C33: setq takes its pairs from left to right, each once; it evaluates
\* the value form of a pair and assigns the value to the symbol at once, the
\* next value form being evaluated in the state the assignment leaves, where
\* a read of the symbol finds the value; it returns the value assigned last;
\* it fails when an odd number of forms follows or when a form in variable
\* position is not a symbol.
C33_SetqAssignsPairsInOrder ==
    \A p \in Setqs :
        LET F == SetqArgs(p)
            x == SetqExit(p)
            P == PairsOf(p)
        IN /\ \A q \in P :
                 LET i == log[q].index
                     n == AfterPair(p, q)
                 IN /\ i = 1 + Cardinality({q2 \in P : q2 < q})
                    /\ 2 * i <= Len(F)
                    /\ log[q].var = F[2 * i - 1] /\ IsSymbol(log[q].var)
                    /\ log[q].form = F[2 * i]
                    /\ log[q + 1].k = "eval" /\ log[q + 1].form = log[q].form
                    /\ (n \in P \/ log[x].res.ok)
                         => /\ n - 1 > q + 1
                            /\ log[n - 1].k = "var_set"
                            /\ log[n - 1].name = log[q].var
                            /\ Lookup(log[n - 1].post, log[q].var) = Ok(log[n - 1].value)
                            /\ Simple(log[q].form)
                                 => Ok(log[n - 1].value) = ValueOf(log[n - 1].pre, log[q].form)
                            /\ n \in P => /\ log[n].index = i + 1
                                          /\ Simple(log[n].form)
                                               => Quiet(n - 1, AfterPair(p, n) - 1)
           /\ log[x].res.ok
                => /\ WellFormed(F)
                   /\ Cardinality(P) = Len(F) \div 2
                   /\ log[x - 1].k = "var_set"
                   /\ log[x - 1].name = F[Len(F) - 1]
                   /\ log[x].res = Ok(log[x - 1].value)
           /\ (Len(F) % 2 = 1 \/ \E i \in DOMAIN F : i % 2 = 1 /\ ~IsSymbol(F[i]))
                => IsError(log[x].res)

\* C33 witness: a setq of three pairs returned the value assigned last, and
\* its second pair assigned the value that its first pair had given to the
\* variable its value form reads
C33_Witness ==
    \E p \in Setqs :
        /\ Len(SetqArgs(p)) = 6
        /\ log[SetqExit(p)].res = Ok(IntObj(9))
        /\ \E q \in PairsOf(p), n \in PairsOf(p) :
              /\ log[q].index = 1 /\ log[n].index = 2
              /\ log[n].form = log[q].var
              /\ log[AfterPair(p, n) - 1].k = "var_set"
              /\ log[AfterPair(p, n) - 1].value = log[n - 1].value
              /\ log[n - 1].value \in Ints
              /\ log[AfterPair(p, n) - 1].name # log[q].var

---------------------------------------------------------------------------
(* Reading the history of a form that evaluates its subforms in turn       *)

SeqHeads == {"and", "or", "cond", "prog1", "prog2"}
\* the symbol at the head of a form, as a string
HeadOf(f) ==
    IF f[1] = "list" /\ f[2] # <<>> /\ IsSymbol(f[2][1]) THEN f[2][1][2] ELSE "none"
\* the evaluations that enter a form of one of the heads
Entered(heads) == {e \in Events("eval") : HeadOf(log[e].form) \in heads}
\* how many such forms are entered and not left at position q
SeqDepth(q) ==
    Cardinality({e \in Entered(SeqHeads) : e <= q})
        - Cardinality({x \in Events("leave") : x < q})
\* the step that leaves the form entered at p
Left(p) == MinOf({x \in Events("leave") : x > p /\ SeqDepth(x) = SeqDepth(p)})
\* the steps of the form entered at p itself
StepsOf(p) ==
    {q \in DOMAIN log :
        /\ p < q /\ q <= Left(p)
        /\ log[q].k \in {"sub", "sub_done", "body", "leave"}
        /\ SeqDepth(q) = SeqDepth(p)}
NextStep(p, q) == MinOf({n \in StepsOf(p) : n > q})
\* the subforms the form at p has taken up
SubsOf(p) == {q \in StepsOf(p) : log[q].k = "sub"}
\* q is the i-th subform taken up
Rank(p, q) == 1 + Cardinality({n \in SubsOf(p) : n < q})
FormsOf(p) == Tail(log[p].form[2])

\* C34: and and or take their forms from left to right, each once, the next
\* only after the one before it has yielded a value that does not decide;
\* and is left with nil directly after the first form that yields nil,
\* with the value of the last form when none does, and with t when it has no
\* form; or is left with the first value that is not nil directly after the
\* form that yields it, and with nil when there is none.
C34_AndOrShortCircuit ==
    \A p \in Entered({"and", "or"}) :
        LET op == HeadOf(log[p].form)
            F == FormsOf(p)
            x == Left(p)
        IN /\ log[x].of = op
           /\ IF F = <<>>
              THEN x = p + 1 /\ log[x].res = (IF op = "and" THEN Ok(TRUE_) ELSE Ok(NIL))
              ELSE log[p + 1].k = "sub"
           /\ \A q \in SubsOf(p) :
                 LET i == Rank(p, q)
                     d == NextStep(p, q)
                     r == log[d].res
                 IN /\ i <= Len(F) /\ log[q].form = F[i]
                    /\ log[q + 1].k = "eval" /\ log[q + 1].form = F[i]
                    /\ log[d].k = "sub_done"
                    /\ IF ~r.ok THEN x = d + 1 /\ log[x].res = r
                       ELSE IF (op = "and") = (r.val = NIL) THEN x = d + 1 /\ log[x].res = r
                       ELSE IF i = Len(F)
                       THEN x = d + 1 /\ log[x].res = (IF op = "and" THEN r ELSE Ok(NIL))
                       ELSE log[d + 1].k = "sub" /\ d + 1 \in SubsOf(p)

\* C34 witness: an and of three forms was left with nil after its second
\* form, its third form not evaluated, and the or around it went on to its
\* second form, which read the value the and had assigned, and returned it
\* without evaluating its third form
C34_Witness ==
    \E a \in Entered({"and"}), o \in Entered({"or"}) :
        /\ o < a /\ Left(a) < Left(o)
        /\ Len(FormsOf(a)) = 3 /\ Cardinality(SubsOf(a)) = 2
        /\ log[Left(a)].res = Ok(NIL)
        /\ Len(FormsOf(o)) = 3 /\ Cardinality(SubsOf(o)) = 2
        /\ log[Left(o)].res.ok /\ log[Left(o)].res.val \in Ints
        /\ result = log[Left(o)].res
        /\ Lookup(Snap([vars |-> <<>>, heap |-> heap, env |-> env]), Sym("x")) = result

---------------------------------------------------------------------------
(* Reading the history of a cond                                           *)

NonEmptyClause(c) == Elements(c) # <<>>
\* the clauses of the cond entered at p that have a test
ClausesOf(p) == SelectSeq(FormsOf(p), NonEmptyClause)
AllSimple(forms) == \A i \in DOMAIN forms : Simple(forms[i])
\* the value of a form that is an atom or a quotation, a symbol excepted
Literal(f) == IF f[1] = "list" THEN Ok(f[2][2]) ELSE Ok(f)

\* C35: cond evaluates the tests of its clauses in order, passing over a
\* clause without a test, until a test yields a value that is not nil; it
\* is then left with that value when the clause has no body form, and
\* otherwise evaluates the body forms of that clause in order and is left
\* with the value of the last; no test and no body of a later clause is
\* evaluated, the body of a clause whose test yields nil is not evaluated,
\* and a cond none of whose tests yields a value other than nil is left
\* with nil.
C35_CondTakesFirstTrueClause ==
    \A p \in Entered({"cond"}) :
        LET C == ClausesOf(p)
            x == Left(p)
        IN /\ log[x].of = "cond"
           /\ IF C = <<>> THEN x = p + 1 /\ log[x].res = Ok(NIL) ELSE log[p + 1].k = "sub"
           /\ \A q \in SubsOf(p) :
                 LET i == Rank(p, q)
                     d == NextStep(p, q)
                     r == log[d].res
                     clause == Elements(C[i])
                     body == Tail(clause)
                 IN /\ i <= Len(C) /\ log[q].form = clause[1]
                    /\ log[q + 1].k = "eval" /\ log[q + 1].form = clause[1]
                    /\ log[d].k = "sub_done"
                    /\ IF ~r.ok THEN x = d + 1 /\ log[x].res = r
                       ELSE IF r.val # NIL
                       THEN IF body = <<>> THEN x = d + 1 /\ log[x].res = r
                            ELSE /\ log[d + 1].k = "body" /\ log[d + 1].forms = body
                                 /\ NextStep(p, d + 1) = x
                                 /\ log[d + 2].k = "eval" /\ log[d + 2].form = body[1]
                                 /\ AllSimple(body)
                                      => /\ EvalForms(d + 1, x) = body
                                         /\ IF IsSymbol(body[Len(body)])
                                            THEN /\ log[x - 1].k = "var_ref"
                                                 /\ log[x - 1].sym = body[Len(body)]
                                                 /\ log[x].res = log[x - 1].res
                                            ELSE log[x].res = Literal(body[Len(body)])
                                 /\ IsSetqForm(body[Len(body)]) /\ log[x].res.ok
                                      => /\ log[x - 1].k = "setq_exit"
                                         /\ log[x].res = log[x - 1].res
                       ELSE IF i = Len(C) THEN x = d + 1 /\ log[x].res = Ok(NIL)
                       ELSE log[d + 1].k = "sub" /\ d + 1 \in SubsOf(p)

\* C35 witness: a cond passed a clause whose test is nil without evaluating
\* its body and a clause without a test, took the third of its four clauses,
\* evaluated the two body forms of that clause and returned the value of the
\* second, which is what the test had assigned to x; the fourth clause was
\* not evaluated
C35_Witness ==
    \E p \in Entered({"cond"}) :
        /\ Len(FormsOf(p)) = 4 /\ Len(ClausesOf(p)) = 3
        /\ Cardinality(SubsOf(p)) = 2
        /\ \E b \in StepsOf(p) :
              /\ log[b].k = "body" /\ Len(log[b].forms) = 2
              /\ EvalForms(b, Left(p)) = log[b].forms
        /\ log[Left(p)].res.ok /\ log[Left(p)].res.val \in Ints
        /\ result = log[Left(p)].res
        /\ Lookup(Snap([vars |-> <<>>, heap |-> heap, env |-> env]), Sym("x")) = result

---------------------------------------------------------------------------
(* Reading the history of a prog1 or prog2                                 *)

\* the step at which the n-th subform of the form entered at p came out
DoneOf(p, n) == NextStep(p, CHOOSE q \in SubsOf(p) : Rank(p, q) = n)

\* C36: prog1 and prog2 evaluate their forms in order, each once, and are
\* left after the last with the value that the first form (prog1) or the
\* second form (prog2) yielded when it was evaluated, whatever the later
\* forms assign; a form that is a variable yields the value the variable had
\* at that step; with no form, and for prog2 with one form, they fail with an
\* arity error.
C36_ProgxReturnsRememberedValue ==
    \A p \in Entered({"prog1", "prog2"}) :
        LET name == HeadOf(log[p].form)
            num == IF name = "prog1" THEN 1 ELSE 2
            F == FormsOf(p)
            x == Left(p)
        IN /\ log[x].of = name
           /\ IF F = <<>> THEN x = p + 1 /\ log[x].res = ArgError(name)
              ELSE log[p + 1].k = "sub"
           /\ \A q \in SubsOf(p) :
                 LET i == Rank(p, q)
                     d == NextStep(p, q)
                     r == log[d].res
                 IN /\ i <= Len(F) /\ log[q].form = F[i]
                    /\ log[q + 1].k = "eval" /\ log[q + 1].form = F[i]
                    /\ log[d].k = "sub_done"
                    /\ IsSymbol(F[i]) => /\ d = q + 3
                                         /\ log[q + 2].k = "var_ref"
                                         /\ r = Lookup(log[q + 2].pre, F[i])
                    /\ IF ~r.ok THEN x = d + 1 /\ log[x].res = r
                       ELSE IF i = Len(F)
                       THEN /\ x = d + 1
                            /\ log[x].res = IF Len(F) >= num THEN log[DoneOf(p, num)].res
                                            ELSE ArgError(name)
                       ELSE log[d + 1].k = "sub" /\ d + 1 \in SubsOf(p)

\* C36 witness: a prog1 of three forms returned the value its first form
\* read from x, its second form assigned another value to x, and its third
\* form read that other value
C36_Witness ==
    \E p \in Entered({"prog1"}) :
        /\ Len(FormsOf(p)) = 3 /\ Cardinality(SubsOf(p)) = 3
        /\ FormsOf(p)[1] = Sym("x") /\ FormsOf(p)[3] = Sym("x")
        /\ log[Left(p)].res.ok /\ log[Left(p)].res.val \in Ints
        /\ log[Left(p)].res = log[DoneOf(p, 1)].res
        /\ log[DoneOf(p, 3)].res = Ok(IntObj(9))
        /\ result = log[Left(p)].res
        /\ Lookup(Snap([vars |-> <<>>, heap |-> heap, env |-> env]), Sym("x")) = Ok(IntObj(9))
====
